---- MODULE Spec2Model ----
(***************************************************************************)
(* A model of the power-consumption engine of streamlit_app.py.             *)
(*                                                                         *)
(* Numbers.  The engine computes with Python floats.  The model computes    *)
(* with exact rationals <<n, d>> (d > 0, gcd(n, d) = 1), so two numbers are  *)
(* equal exactly when their tuples are equal.  Floating-point rounding is    *)
(* abstracted; Python's ZeroDivisionError on a zero divisor is modelled.     *)
(*                                                                         *)
(* Dictionaries are TLA+ records; a key a dict lacks is a field the record   *)
(* lacks, and reading it with d[k] raises KeyError.                          *)
(*                                                                         *)
(* A call's outcome is either Return(v) or Raise(e): [raised |-> "none",     *)
(* value |-> v] or [raised |-> "ZeroDivisionError" | "KeyError" | ...].      *)
(*                                                                         *)
(* The functions keep no state of their own: the model's state is the       *)
(* arguments, the outcome of the last call, and a history of the outcomes   *)
(* of the calculators' calls, against which repeated calls are compared.    *)
(*                                                                         *)
(* The application (main) is a script that Streamlit runs again after every *)
(* interaction.  What lasts from one run to the next is the widgets' values  *)
(* (the form) and st.session_state; what a run put on the page is gone with  *)
(* the next run.                                                            *)
(***************************************************************************)
EXTENDS Integers, Sequences, FiniteSets, TLC

VARIABLES
    sensors_config,       \* argument of calculate_sensor_consumption
    comms_config,         \* argument of calculate_comms_consumption
    coprocessor_config,   \* argument of calculate_coprocessor_consumption
    efficiency_factors,   \* argument of calculate_total_consumption
    hours,                \* the horizon argument of the calculators
    battery_capacity_wh,  \* argument of calculate_battery_life
    daily_consumption_mwh,\* argument of calculate_battery_life
    called,               \* the function called last ("none" before any call)
    result,               \* the outcome of the last calculator call
    timeline,             \* the outcome of the last calculate_power_timeline call
    calls,                \* history: every <<function, outcome>> so far
    selected_profile,     \* the "Select Configuration Profile" selectbox
    session_state,        \* st.session_state, a dict
    page                  \* what the last run of main did and put on the page

vars == <<sensors_config, comms_config, coprocessor_config, efficiency_factors,
          hours, battery_capacity_wh, daily_consumption_mwh, called, result,
          timeline, calls, selected_profile, session_state, page>>

\* The application's variables; the calculators do not touch them.
ui == <<selected_profile, session_state, page>>

inputs == <<sensors_config, comms_config, coprocessor_config, efficiency_factors,
            hours, battery_capacity_wh, daily_consumption_mwh>>

(***************************************************************************)
(* Exact rational arithmetic standing for Python's float operators.        *)
(***************************************************************************)
Abs(x) == IF x < 0 THEN -x ELSE x

RECURSIVE GCD(_, _)
GCD(a, b) == IF b = 0 THEN a ELSE GCD(b, a % b)

\* The rational n/d in lowest terms with a positive denominator (d # 0).
Q(n, d) ==
    LET g == GCD(Abs(n), Abs(d))
        s == IF d < 0 THEN -1 ELSE 1
    IN  <<s * (n \div g), s * (d \div g)>>

N(i) == <<i, 1>>

Zero == N(0)

\* x + y, through the least common denominator.
RAdd(x, y) ==
    LET g == GCD(x[2], y[2])
    IN  Q(x[1] * (y[2] \div g) + y[1] * (x[2] \div g), (x[2] \div g) * y[2])

RNeg(x) == <<-x[1], x[2]>>

\* x - y
RSub(x, y) == RAdd(x, RNeg(y))

\* x * y, cancelling across before multiplying.
RMul(x, y) ==
    LET g1 == GCD(Abs(x[1]), y[2])
        g2 == GCD(Abs(y[1]), x[2])
    IN  <<(x[1] \div g1) * (y[1] \div g2), (x[2] \div g2) * (y[2] \div g1)>>

\* x / y for y # 0 (the callers raise ZeroDivisionError on y = 0).
RDiv(x, y) ==
    RMul(x, IF y[1] < 0 THEN <<-y[2], -y[1]>> ELSE <<y[2], y[1]>>)

\* a/b < c/d for b, d > 0, by whole parts and then the remainders' reciprocals
\* (no cross product, which would leave the integers' range).
RECURSIVE FracLt(_, _, _, _)
FracLt(a, b, c, d) ==
    IF a \div b # c \div d THEN a \div b < c \div d
    ELSE IF c % d = 0 THEN FALSE
    ELSE IF a % b = 0 THEN TRUE
    ELSE FracLt(d, c % d, b, a % b)

\* x < y, x <= y, x > y
RLt(x, y) == FracLt(x[1], x[2], y[1], y[2])

RLe(x, y) == ~RLt(y, x)

RGt(x, y) == RLt(y, x)

(***************************************************************************)
(* Outcomes of a call, and dict access.                                    *)
(***************************************************************************)
Return(v) == [raised |-> "none", value |-> v]

Raise(e) == [raised |-> e]

Returned(r) == r.raised = "none"

\* k in d
Has(d, k) == k \in DOMAIN d

\* d.get(k, default)
Get(d, k, default) == IF Has(d, k) THEN d[k] ELSE default

(***************************************************************************)
(* Component power models (the reference tables).                          *)
(***************************************************************************)
BATTERY_CONFIGS ==
    [standard |-> [capacity |-> N(77),
                   typical_derating |-> [temperature |-> N(85), aging |-> N(90), voltage |-> N(85)]],
     extended |-> [capacity |-> Q(1007, 10),
                   typical_derating |-> [temperature |-> N(85), aging |-> N(90), voltage |-> N(85)]]]

SENSOR_CONFIGS ==
    [LSM6DSV   |-> [operation_mode |-> "continuous",
                    typical   |-> [active |-> Q(695, 1000), sleep |-> Q(15, 10000)],
                    low_power |-> [active |-> Q(29, 100),   sleep |-> Q(15, 10000)]],
     MMC5983MA |-> [operation_mode |-> "polled",
                    typical   |-> [active |-> N(1),         sleep |-> Q(2, 1000)],
                    low_power |-> [active |-> Q(5, 10),     sleep |-> Q(2, 1000)]],
     TSL2591   |-> [operation_mode |-> "polled",
                    typical   |-> [active |-> Q(74, 100),   sleep |-> Q(24, 10000)],
                    low_power |-> [active |-> Q(37, 100),   sleep |-> Q(24, 10000)]],
     BME280    |-> [operation_mode |-> "polled",
                    typical   |-> [active |-> Q(714, 1000), sleep |-> Q(24, 10000)],
                    low_power |-> [active |-> Q(35, 100),   sleep |-> Q(24, 10000)]]]

COMMS_CONFIGS ==
    [GPS      |-> [power_modes |->
                     [acquisition |-> [power |-> N(25), typical_duration |-> N(30)],
                      tracking    |-> [power |-> N(20), typical_duration |-> N(5)]],
                   default_schedule |-> [frequency |-> N(6), duration |-> N(30)]],
     CELLULAR |-> [power_modes |->
                     [startup |-> [power |-> N(600), duration |-> N(5)],
                      active  |-> [power |-> N(500), min_duration |-> N(60)],
                      idle    |-> [power |-> N(100)]],
                   default_schedule |-> [frequency |-> N(1), duration |-> N(10)]],
     LORA     |-> [power_modes |->
                     [tx    |-> [power |-> N(100), typical_duration |-> N(5)],
                      rx    |-> [power |-> N(10),  typical_duration |-> N(2)],
                      sleep |-> [power |-> Q(15, 10000)]],
                   default_schedule |-> [tx_frequency |-> N(1), rx_duty_cycle |-> Q(1, 10)]]]

COPROCESSOR_CONFIGS ==
    ("Jetson Orin Nano" :>
        [power_modes |-> [max     |-> [active |-> N(14000), idle |-> N(400)],
                          typical |-> [active |-> N(7000),  idle |-> N(400)]],
         startup_time |-> N(30)]) @@
    ("Raspberry Pi CM4" :>
        [power_modes |-> [max     |-> [active |-> N(7000),  idle |-> Q(75, 10000)],
                          typical |-> [active |-> N(4000),  idle |-> Q(75, 10000)]],
         startup_time |-> N(20)])

(***************************************************************************)
(* calculate_sensor_consumption                                            *)
(***************************************************************************)
\* The keys of sensors_config that name sensors, in the dict's order.
SensorOrder == <<"LSM6DSV", "MMC5983MA", "TSL2591", "BME280">>

SensorKeys(config) == SelectSeq(SensorOrder, LAMBDA id : Has(config, id))

\* Polled operation: the hours a polled sensor is active, and asleep.
PolledActiveHours(base_frequency, base_duration, hrs) ==
    RDiv(RMul(RMul(base_frequency, base_duration), hrs), N(3600))

\* Faulty variant: the active hours not subtracted from the sleep hours.
PolledSleepHours_Whole(base_frequency, base_duration, hrs) == hrs

PolledSleepHours(base_frequency, base_duration, hrs) ==
    RSub(hrs, PolledActiveHours(base_frequency, base_duration, hrs))

\* The energy of one polled sensor.
PolledConsumption(sensor, base_frequency, base_duration, hrs) ==
    RAdd(RMul(sensor.active_power, PolledActiveHours(base_frequency, base_duration, hrs)),
         RMul(sensor.sleep_power, PolledSleepHours(base_frequency, base_duration, hrs)))

\* Faulty variant: a continuous sensor also charged its sleep power.
ContinuousConsumption_WithSleep(sensor, hrs) ==
    RMul(RAdd(sensor.active_power, sensor.sleep_power), hrs)

\* The energy of one continuous sensor.
ContinuousConsumption(sensor, hrs) == RMul(sensor.active_power, hrs)

\* One pass of the loop body over the sensor sensor_id; acc is the outcome so
\* far (the consumption dict, or the exception that ended the call).
SensorStep(acc, sensor_id, sensor, base_frequency, base_duration, hrs) ==
    IF ~Returned(acc) THEN acc
    ELSE IF ~Has(sensor, "enabled") THEN Raise("KeyError")
    ELSE IF ~sensor.enabled THEN acc
    ELSE LET consumption == acc.value
             sensor_type == SENSOR_CONFIGS[sensor_id]
             continuous  == sensor_type.operation_mode = "continuous"
         IN  IF ~Has(sensor, "active_power") THEN Raise("KeyError")
             ELSE IF ~continuous /\ ~Has(sensor, "sleep_power") THEN Raise("KeyError")
             ELSE IF hrs = Zero THEN Raise("ZeroDivisionError")
             ELSE LET sensor_consumption ==
                          IF continuous THEN ContinuousConsumption(sensor, hrs)
                          ELSE PolledConsumption(sensor, base_frequency, base_duration, hrs)
                      details == [id \in DOMAIN consumption.details \cup {sensor_id} |->
                                    IF id = sensor_id
                                    THEN [total_mwh |-> sensor_consumption,
                                          average_mw |-> RDiv(sensor_consumption, hrs),
                                          operation_mode |-> sensor_type.operation_mode]
                                    ELSE consumption.details[id]]
                  IN  Return([continuous |-> IF continuous
                                             THEN RAdd(consumption.continuous, sensor_consumption)
                                             ELSE consumption.continuous,
                              polled     |-> IF continuous
                                             THEN consumption.polled
                                             ELSE RAdd(consumption.polled, sensor_consumption),
                              total      |-> consumption.total,
                              details    |-> details])

\* The loop over sensors_config.items(), from the first i keys.
RECURSIVE SensorLoop(_, _, _, _, _)
SensorLoop(config, i, base_frequency, base_duration, hrs) ==
    IF i = 0
    THEN Return([continuous |-> Zero, polled |-> Zero, total |-> Zero, details |-> <<>>])
    ELSE SensorStep(SensorLoop(config, i - 1, base_frequency, base_duration, hrs),
                    SensorKeys(config)[i], config[SensorKeys(config)[i]],
                    base_frequency, base_duration, hrs)

\* Faulty variant: the total leaves the continuous sensors out.
calculate_sensor_consumption_PolledTotal(config, hrs) ==
    LET base_frequency == Get(config, "base_frequency_per_hour", N(60))
        base_duration  == Get(config, "base_duration_seconds", Q(1, 10))
        looped == SensorLoop(config, Len(SensorKeys(config)), base_frequency, base_duration, hrs)
    IN  IF ~Returned(looped) THEN looped
        ELSE Return([looped.value EXCEPT !.total = looped.value.polled])

calculate_sensor_consumption(config, hrs) ==
    LET base_frequency == Get(config, "base_frequency_per_hour", N(60))
        base_duration  == Get(config, "base_duration_seconds", Q(1, 10))
        looped == SensorLoop(config, Len(SensorKeys(config)), base_frequency, base_duration, hrs)
    IN  IF ~Returned(looped) THEN looped
        ELSE Return([looped.value EXCEPT !.total =
                        RAdd(looped.value.continuous, looped.value.polled)])

(***************************************************************************)
(* calculate_comms_consumption                                             *)
(***************************************************************************)
\* Some key of keys is not in d: reading it raises KeyError.
Lacks(d, keys) == \E k \in keys : ~Has(d, k)

\* consumption with the radio's details stored and its energy added to total.
WithRadio(consumption, radio, entry) ==
    [total   |-> RAdd(consumption.total, entry.total_mwh),
     details |-> [id \in DOMAIN consumption.details \cup {radio} |->
                    IF id = radio THEN entry ELSE consumption.details[id]]]

GpsUpdates(gps, hrs) == RMul(gps.frequency_per_hour, hrs)

GpsAcquisitionEnergy ==
    RDiv(RMul(COMMS_CONFIGS.GPS.power_modes.acquisition.power,
              COMMS_CONFIGS.GPS.power_modes.acquisition.typical_duration), N(3600))

\* Faulty variant: every update, the first too, charged as a tracking update.
GpsTrackingEnergy_AllUpdates(gps, hrs) ==
    RDiv(RMul(RMul(GpsUpdates(gps, hrs), gps.active_power), gps.duration_seconds), N(3600))

GpsTrackingEnergy(gps, hrs) ==
    RDiv(RMul(RMul(RSub(GpsUpdates(gps, hrs), N(1)), gps.active_power),
              gps.duration_seconds), N(3600))

GpsConsumption(gps, hrs) == RAdd(GpsAcquisitionEnergy, GpsTrackingEnergy(gps, hrs))

\* Faulty variant: the GPS fields read before the enabled flag is looked at.
GpsStep_FieldsFirst(acc, config, hrs) ==
    IF ~Returned(acc) THEN acc
    ELSE IF ~Has(config, "gps") \/ ~Has(config.gps, "enabled") THEN Raise("KeyError")
    ELSE LET gps == config.gps
         IN  IF Lacks(gps, {"frequency_per_hour", "active_power", "duration_seconds"})
             THEN Raise("KeyError")
             ELSE IF ~gps.enabled THEN acc
             ELSE IF hrs = Zero THEN Raise("ZeroDivisionError")
             ELSE Return(WithRadio(acc.value, "gps",
                     [total_mwh  |-> GpsConsumption(gps, hrs),
                      average_mw |-> RDiv(GpsConsumption(gps, hrs), hrs),
                      updates    |-> GpsUpdates(gps, hrs)]))

\* The GPS block.
GpsStep(acc, config, hrs) ==
    IF ~Returned(acc) THEN acc
    ELSE IF ~Has(config, "gps") \/ ~Has(config.gps, "enabled") THEN Raise("KeyError")
    ELSE IF ~config.gps.enabled THEN acc
    ELSE LET gps == config.gps
         IN  IF Lacks(gps, {"frequency_per_hour", "active_power", "duration_seconds"})
             THEN Raise("KeyError")
             ELSE IF hrs = Zero THEN Raise("ZeroDivisionError")
             ELSE Return(WithRadio(acc.value, "gps",
                     [total_mwh  |-> GpsConsumption(gps, hrs),
                      average_mw |-> RDiv(GpsConsumption(gps, hrs), hrs),
                      updates    |-> GpsUpdates(gps, hrs)]))

\* Faulty variant: the sessions per day taken as sessions per hour.
CellularSessions_PerHour(cellular, hrs) == RMul(cellular.frequency_per_day, hrs)

CellularSessions(cellular, hrs) == RMul(cellular.frequency_per_day, RDiv(hrs, N(24)))

CellularStartupEnergy(cellular, hrs) ==
    RDiv(RMul(RMul(CellularSessions(cellular, hrs),
                   COMMS_CONFIGS.CELLULAR.power_modes.startup.power),
              COMMS_CONFIGS.CELLULAR.power_modes.startup.duration), N(3600))

CellularActiveEnergy(cellular, hrs) ==
    RDiv(RMul(RMul(RMul(CellularSessions(cellular, hrs), cellular.active_power),
                   cellular.duration_minutes), N(60)), N(3600))

CellularConsumption(cellular, hrs) ==
    RAdd(CellularStartupEnergy(cellular, hrs), CellularActiveEnergy(cellular, hrs))

\* The cellular block.
CellularStep(acc, config, hrs) ==
    IF ~Returned(acc) THEN acc
    ELSE IF ~Has(config, "cellular") \/ ~Has(config.cellular, "enabled") THEN Raise("KeyError")
    ELSE IF ~config.cellular.enabled THEN acc
    ELSE LET cellular == config.cellular
         IN  IF Lacks(cellular, {"frequency_per_day", "active_power", "duration_minutes"})
             THEN Raise("KeyError")
             ELSE IF hrs = Zero THEN Raise("ZeroDivisionError")
             ELSE Return(WithRadio(acc.value, "cellular",
                     [total_mwh  |-> CellularConsumption(cellular, hrs),
                      average_mw |-> RDiv(CellularConsumption(cellular, hrs), hrs),
                      sessions   |-> CellularSessions(cellular, hrs)]))

\* Faulty variant: the frequency taken per hour whatever its frequency_type.
LoraMessages_PerHour(lora, hrs) == RMul(hrs, lora.frequency)

LoraMessages(lora, hrs) ==
    RMul(IF lora.frequency_type = "per_hour" THEN hrs ELSE RDiv(hrs, N(24)), lora.frequency)

LoraTxEnergy(lora, hrs) ==
    RDiv(RMul(RMul(LoraMessages(lora, hrs), lora.active_power), lora.duration_seconds), N(3600))

\* Faulty variant: listening taken to be on when the config does not say.
LoraListen_DefaultOn(lora) == Get(lora, "listen_enabled", TRUE)

LoraListen(lora) == Get(lora, "listen_enabled", FALSE)

\* rx_time, in seconds (bound only when listening is enabled).
LoraRxTime(lora, hrs) == RMul(RMul(hrs, N(3600)), Get(lora, "rx_duty_cycle", Q(1, 10)))

LoraRxEnergy(lora, hrs) ==
    IF LoraListen(lora)
    THEN RDiv(RMul(COMMS_CONFIGS.LORA.power_modes.rx.power, LoraRxTime(lora, hrs)), N(3600))
    ELSE Zero

LoraActiveTime(lora, hrs) ==
    RAdd(RMul(LoraMessages(lora, hrs), lora.duration_seconds),
         IF LoraListen(lora) THEN LoraRxTime(lora, hrs) ELSE Zero)

\* Faulty variant: the sleep time clamped at zero.
LoraSleepTime_Clamped(lora, hrs) ==
    IF RLt(RSub(RMul(hrs, N(3600)), LoraActiveTime(lora, hrs)), Zero)
    THEN Zero
    ELSE RSub(RMul(hrs, N(3600)), LoraActiveTime(lora, hrs))

LoraSleepTime(lora, hrs) == RSub(RMul(hrs, N(3600)), LoraActiveTime(lora, hrs))

LoraSleepEnergy(lora, hrs) ==
    RDiv(RMul(COMMS_CONFIGS.LORA.power_modes.sleep.power, LoraSleepTime(lora, hrs)), N(3600))

LoraConsumption(lora, hrs) ==
    RAdd(RAdd(LoraTxEnergy(lora, hrs), LoraRxEnergy(lora, hrs)), LoraSleepEnergy(lora, hrs))

\* The LoRa block.
LoraStep(acc, config, hrs) ==
    IF ~Returned(acc) THEN acc
    ELSE IF ~Has(config, "lora") \/ ~Has(config.lora, "enabled") THEN Raise("KeyError")
    ELSE IF ~config.lora.enabled THEN acc
    ELSE LET lora == config.lora
         IN  IF Lacks(lora, {"frequency_type", "frequency", "active_power", "duration_seconds"})
             THEN Raise("KeyError")
             ELSE IF hrs = Zero THEN Raise("ZeroDivisionError")
             ELSE Return(WithRadio(acc.value, "lora",
                     [total_mwh  |-> LoraConsumption(lora, hrs),
                      average_mw |-> RDiv(LoraConsumption(lora, hrs), hrs),
                      messages   |-> LoraMessages(lora, hrs),
                      rx_enabled |-> LoraListen(lora)]))

calculate_comms_consumption(config, hrs) ==
    LoraStep(CellularStep(GpsStep(Return([total |-> Zero, details |-> <<>>]),
                                  config, hrs), config, hrs), config, hrs)

(***************************************************************************)
(* calculate_coprocessor_consumption                                       *)
(***************************************************************************)
CoprocWindows(config, hrs) == RMul(config.frequency_per_day, RDiv(hrs, N(24)))

CoprocStartupTimeHrs(config) == RDiv(COPROCESSOR_CONFIGS[config.type].startup_time, N(3600))

\* Faulty variant: the startup drawn at the selected mode's active power.
CoprocStartupPower_Selected(config) == config.active_power

CoprocStartupPower(config) == COPROCESSOR_CONFIGS[config.type].power_modes.typical.active

CoprocStartupEnergy(config, hrs) ==
    RMul(RMul(CoprocStartupPower(config), CoprocStartupTimeHrs(config)), CoprocWindows(config, hrs))

CoprocActiveTimeHrs(config, hrs) ==
    RDiv(RMul(config.duration_minutes, CoprocWindows(config, hrs)), N(60))

CoprocActiveEnergy(config, hrs) == RMul(config.active_power, CoprocActiveTimeHrs(config, hrs))

CoprocIdleTimeHrs(config, hrs) ==
    RSub(RSub(hrs, CoprocActiveTimeHrs(config, hrs)),
         RMul(CoprocStartupTimeHrs(config), CoprocWindows(config, hrs)))

CoprocIdleEnergy(config, hrs) == RMul(config.idle_power, CoprocIdleTimeHrs(config, hrs))

CoprocTotalEnergy(config, hrs) ==
    RAdd(RAdd(CoprocStartupEnergy(config, hrs), CoprocActiveEnergy(config, hrs)),
         CoprocIdleEnergy(config, hrs))

\* Faulty variant: the average taken over a day whatever the horizon.
calculate_coprocessor_consumption_DailyAverage(config, hrs) ==
    IF ~Has(config, "enabled") THEN Raise("KeyError")
    ELSE IF ~config.enabled THEN Return([total |-> Zero, details |-> <<>>])
    ELSE IF Lacks(config, {"frequency_per_day", "type"}) THEN Raise("KeyError")
    ELSE IF config.type \notin DOMAIN COPROCESSOR_CONFIGS THEN Raise("KeyError")
    ELSE IF Lacks(config, {"duration_minutes", "active_power", "idle_power"}) THEN Raise("KeyError")
    ELSE IF hrs = Zero THEN Raise("ZeroDivisionError")
    ELSE Return([details |-> [startup_mwh |-> CoprocStartupEnergy(config, hrs),
                              active_mwh  |-> CoprocActiveEnergy(config, hrs),
                              idle_mwh    |-> CoprocIdleEnergy(config, hrs),
                              average_mw  |-> RDiv(CoprocTotalEnergy(config, hrs), N(24)),
                              windows     |-> CoprocWindows(config, hrs)],
                 total   |-> CoprocTotalEnergy(config, hrs)])

calculate_coprocessor_consumption(config, hrs) ==
    IF ~Has(config, "enabled") THEN Raise("KeyError")
    ELSE IF ~config.enabled THEN Return([total |-> Zero, details |-> <<>>])
    ELSE IF Lacks(config, {"frequency_per_day", "type"}) THEN Raise("KeyError")
    ELSE IF config.type \notin DOMAIN COPROCESSOR_CONFIGS THEN Raise("KeyError")
    ELSE IF Lacks(config, {"duration_minutes", "active_power", "idle_power"}) THEN Raise("KeyError")
    ELSE IF hrs = Zero THEN Raise("ZeroDivisionError")
    ELSE Return([details |-> [startup_mwh |-> CoprocStartupEnergy(config, hrs),
                              active_mwh  |-> CoprocActiveEnergy(config, hrs),
                              idle_mwh    |-> CoprocIdleEnergy(config, hrs),
                              average_mw  |-> RDiv(CoprocTotalEnergy(config, hrs), hrs),
                              windows     |-> CoprocWindows(config, hrs)],
                 total   |-> CoprocTotalEnergy(config, hrs)])

(***************************************************************************)
(* calculate_total_consumption                                             *)
(***************************************************************************)
RawTotal(sensors, communications, coprocessor) ==
    RAdd(RAdd(sensors.total, communications.total), coprocessor.total)

\* Faulty variant: the voltage percentage not divided by 100.
Efficiency_VoltageRaw(factors) ==
    RMul(RDiv(RMul(RDiv(factors.temperature, N(100)), factors.aging), N(100)), factors.voltage)

Efficiency(factors) ==
    RDiv(RMul(RDiv(RMul(RDiv(factors.temperature, N(100)), factors.aging), N(100)),
              factors.voltage), N(100))

DeratedTotal(raw_total, efficiency) == RDiv(raw_total, efficiency)

\* Faulty variant: the horizon fixed at 24 hours whatever the hours argument.
AveragePower_Fixed24(derated_total, hrs) == RDiv(derated_total, N(24))

AveragePower(derated_total, hrs) == RDiv(derated_total, hrs)

calculate_total_consumption(sensors_cfg, comms_cfg, coprocessor_cfg, factors, hrs) ==
    LET sensors        == calculate_sensor_consumption(sensors_cfg, hrs)
        communications == calculate_comms_consumption(comms_cfg, hrs)
        coprocessor    == calculate_coprocessor_consumption(coprocessor_cfg, hrs)
    IN  IF ~Returned(sensors) THEN sensors
        ELSE IF ~Returned(communications) THEN communications
        ELSE IF ~Returned(coprocessor) THEN coprocessor
        ELSE IF Lacks(factors, {"temperature", "aging", "voltage"}) THEN Raise("KeyError")
        ELSE LET raw_total  == RawTotal(sensors.value, communications.value, coprocessor.value)
                 efficiency == Efficiency(factors)
             IN  IF efficiency = Zero THEN Raise("ZeroDivisionError")
                 ELSE IF hrs = Zero THEN Raise("ZeroDivisionError")
                 ELSE Return([sensors            |-> sensors.value,
                              communications     |-> communications.value,
                              coprocessor        |-> coprocessor.value,
                              efficiency_factors |-> factors,
                              raw_total_mwh      |-> raw_total,
                              efficiency         |-> efficiency,
                              derated_total_mwh  |-> DeratedTotal(raw_total, efficiency),
                              average_power_mw   |->
                                  AveragePower(DeratedTotal(raw_total, efficiency), hrs)])

(***************************************************************************)
(* calculate_battery_life and the battery sweep of plot_battery_life       *)
(***************************************************************************)
\* float('inf'): the one value that is no rational.
Inf == <<1, 0>>

\* Faulty variant: the sentinel only for a daily consumption of exactly zero.
calculate_battery_life_nonzero(capacity_wh, daily_mwh) ==
    IF daily_mwh # Zero THEN RDiv(RMul(capacity_wh, N(1000)), daily_mwh) ELSE Inf

calculate_battery_life(capacity_wh, daily_mwh) ==
    LET battery_capacity_mwh == RMul(capacity_wh, N(1000))
    IN  IF RGt(daily_mwh, Zero) THEN RDiv(battery_capacity_mwh, daily_mwh) ELSE Inf

\* np.linspace(10, 150, 100)[i], for i in 0 .. 99.
SweepPoints == 100

SweepCapacity(i) == RAdd(N(10), RDiv(N(140 * i), N(SweepPoints - 1)))

\* The two reference capacities, target_batteries.
TargetBatteries == <<N(77), Q(1007, 10)>>

\* The lives plot_battery_life computes: the swept curve and the two targets.
plot_battery_life(daily_mwh) ==
    [battery_lives |-> [i \in 0 .. SweepPoints - 1 |->
                           calculate_battery_life(SweepCapacity(i), daily_mwh)],
     target_lives  |-> [j \in 1 .. Len(TargetBatteries) |->
                           calculate_battery_life(TargetBatteries[j], daily_mwh)]]

(***************************************************************************)
(* calculate_power_timeline                                                *)
(*                                                                         *)
(* The array of one sample per second is kept as its length and the list   *)
(* of additions made to it.  Every loop of the function adds one power to   *)
(* slices of one length at a fixed step, so an addition is a record         *)
(*   [part, first, step, iterations, count, offset, length, power]          *)
(* for: at each t = first + k * step, k in 0 .. count - 1, the slice        *)
(* [t + offset : t + offset + length] gains power.  iterations is the       *)
(* number of passes of the loop, count the passes whose guard let them add. *)
(* Sample and SumTimeline read the array back.                              *)
(***************************************************************************)
Min(a, b) == IF a <= b THEN a ELSE b

Max(a, b) == IF a >= b THEN a ELSE b

\* int(x): truncation toward zero.
Trunc(x) == IF x[1] >= 0 THEN x[1] \div x[2] ELSE -((-x[1]) \div x[2])

\* int(x * 60 * 60), multiplying the whole part and the remainder apart so
\* that the numerator stays in the integers' range.
TimesSixty(mixed, d) ==
    <<mixed[1] * 60 + (mixed[2] * 60) \div d, (mixed[2] * 60) % d>>

TruncSeconds(x) ==
    LET n     == Abs(x[1])
        whole == TimesSixty(TimesSixty(<<n \div x[2], n % x[2]>>, x[2]), x[2])[1]
    IN  IF x[1] >= 0 THEN whole ELSE -whole

\* The least integer not below x.
Ceiling(x) == -((-x[1]) \div x[2])

\* len(range(0, stop, step)), for a step that is not 0.
RangeLen(stop, step) == IF step > 0 /\ stop > 0 THEN (stop + step - 1) \div step ELSE 0

\* The number of t in range(0, seconds, step) with t + duration < seconds;
\* they are the first ones of the range.
GuardedLen(seconds, step, duration) ==
    RangeLen(Min(seconds, Ceiling(RSub(N(seconds), duration))), step)

\* timeline += power.
Whole(part, seconds, power) ==
    [part |-> part, first |-> 0, step |-> seconds, iterations |-> 1, count |-> 1,
     offset |-> 0, length |-> seconds, power |-> power]

Added(tl, additions) == [tl EXCEPT !.adds = tl.adds \o additions]

\* Faulty variant: a day of samples whatever the hours argument.
TimelineZeros_Day(hrs) ==
    IF hrs[2] # 1 THEN Raise("TypeError")
    ELSE IF hrs[1] < 0 THEN Raise("ValueError")
    ELSE Return([length |-> 24 * 3600, adds |-> <<>>])

\* seconds = hours * 3600; timeline = np.zeros(seconds).  hours is an int.
TimelineZeros(hrs) ==
    IF hrs[2] # 1 THEN Raise("TypeError")
    ELSE IF hrs[1] < 0 THEN Raise("ValueError")
    ELSE Return([length |-> hrs[1] * 3600, adds |-> <<>>])

\* Faulty variant: the continuous power is added whatever its sign.
TimelineContinuous_AnySign(acc, consumption_data, hrs) ==
    IF ~Returned(acc) THEN acc
    ELSE IF consumption_data.sensors.continuous = Zero THEN acc
    ELSE IF hrs = Zero THEN Raise("ZeroDivisionError")
    ELSE Return(Added(acc.value,
             <<Whole("continuous", acc.value.length,
                     RDiv(consumption_data.sensors.continuous, hrs))>>))

\* 1. The continuous sensors' power on every sample.
TimelineContinuous(acc, consumption_data, hrs) ==
    IF ~Returned(acc) THEN acc
    ELSE IF ~RGt(consumption_data.sensors.continuous, Zero) THEN acc
    ELSE IF hrs = Zero THEN Raise("ZeroDivisionError")
    ELSE Return(Added(acc.value,
             <<Whole("continuous", acc.value.length,
                     RDiv(consumption_data.sensors.continuous, hrs))>>))

\* 2. The polled sensors.  The interval and the duration are read from
\* consumption_data itself, with defaults 60 per hour and 0.1 s.
PolledSensors(consumption_data) ==
    SelectSeq(SensorOrder,
              LAMBDA id : /\ Has(consumption_data.sensors.details, id)
                          /\ consumption_data.sensors.details[id].operation_mode = "polled")

PolledInterval(consumption_data) ==
    RDiv(N(3600), Get(consumption_data, "base_frequency_per_hour", N(60)))

PolledDuration(consumption_data) == Get(consumption_data, "base_duration_seconds", Q(1, 10))

TimelinePolled(acc, consumption_data) ==
    IF ~Returned(acc) THEN acc
    ELSE IF PolledSensors(consumption_data) = <<>> THEN acc
    ELSE IF Get(consumption_data, "base_frequency_per_hour", N(60)) = Zero
    THEN Raise("ZeroDivisionError")
    ELSE IF Trunc(PolledInterval(consumption_data)) = 0 THEN Raise("ValueError")
    ELSE LET seconds  == acc.value.length
             interval == Trunc(PolledInterval(consumption_data))
             duration == PolledDuration(consumption_data)
             polled   == PolledSensors(consumption_data)
         IN  Return(Added(acc.value,
                 [i \in 1 .. Len(polled) |->
                     [part |-> polled[i], first |-> 0, step |-> interval,
                      iterations |-> RangeLen(seconds, interval),
                      count |-> GuardedLen(seconds, interval, duration),
                      offset |-> 0, length |-> Trunc(duration),
                      power |-> consumption_data.sensors.details[polled[i]].average_mw]]))

\* A radio's details when its block runs: present, with a non-zero average_mw.
Truthy(details, radio) ==
    /\ Has(details, radio)
    /\ Has(details[radio], "average_mw")
    /\ details[radio].average_mw # Zero

\* 3. GPS: the acquisition at t = 0, then tracking fixes of the table's
\* typical duration at the table's tracking power.
TimelineGps(acc, consumption_data) ==
    LET comms_details == consumption_data.communications.details
    IN  IF ~Returned(acc) THEN acc
        ELSE IF ~Truthy(comms_details, "gps") THEN acc
        ELSE IF Get(comms_details.gps, "updates", N(24)) = Zero THEN Raise("ZeroDivisionError")
        ELSE LET seconds  == acc.value.length
                 interval == Trunc(RDiv(N(3600 * 24), Get(comms_details.gps, "updates", N(24))))
                 duration == Trunc(COMMS_CONFIGS.GPS.power_modes.tracking.typical_duration)
                 passes   == RangeLen(seconds, interval)
             IN  IF interval = 0 THEN Raise("ValueError")
                 ELSE Return(Added(acc.value,
                     <<[part |-> "gps_acquisition", first |-> 0, step |-> interval,
                        iterations |-> Min(passes, 1), count |-> Min(passes, 1), offset |-> 0,
                        length |-> Trunc(COMMS_CONFIGS.GPS.power_modes.acquisition.typical_duration),
                        power |-> COMMS_CONFIGS.GPS.power_modes.acquisition.power],
                       [part |-> "gps_tracking", first |-> interval, step |-> interval,
                        iterations |-> Max(passes - 1, 0),
                        count |-> Max(GuardedLen(seconds, interval, N(duration)) - 1, 0),
                        offset |-> 0, length |-> duration,
                        power |-> COMMS_CONFIGS.GPS.power_modes.tracking.power]>>))

\* Faulty variant: every session is written, the last one cut by the end of
\* the array.
TimelineCellular_Unguarded(acc, consumption_data) ==
    LET comms_details == consumption_data.communications.details
    IN  IF ~Returned(acc) THEN acc
        ELSE IF ~Truthy(comms_details, "cellular") THEN acc
        ELSE IF Get(comms_details.cellular, "sessions", N(1)) = Zero
        THEN Raise("ZeroDivisionError")
        ELSE LET seconds  == acc.value.length
                 interval == Trunc(RDiv(N(24 * 3600),
                                        Get(comms_details.cellular, "sessions", N(1))))
                 duration == Trunc(RMul(COMMS_CONFIGS.CELLULAR.default_schedule.duration, N(60)))
                 passes   == RangeLen(seconds, interval)
                 sessions == passes
             IN  IF interval = 0 THEN Raise("ValueError")
                 ELSE Return(Added(acc.value,
                     <<[part |-> "cellular_startup", first |-> 0, step |-> interval,
                        iterations |-> passes, count |-> sessions, offset |-> 0, length |-> 1,
                        power |-> COMMS_CONFIGS.CELLULAR.power_modes.startup.power],
                       [part |-> "cellular_active", first |-> 0, step |-> interval,
                        iterations |-> passes, count |-> sessions, offset |-> 1,
                        length |-> duration - 1,
                        power |-> COMMS_CONFIGS.CELLULAR.power_modes.active.power]>>))

\* 4. Cellular: a startup sample and a transmission window of the table's
\* default session duration.
TimelineCellular(acc, consumption_data) ==
    LET comms_details == consumption_data.communications.details
    IN  IF ~Returned(acc) THEN acc
        ELSE IF ~Truthy(comms_details, "cellular") THEN acc
        ELSE IF Get(comms_details.cellular, "sessions", N(1)) = Zero
        THEN Raise("ZeroDivisionError")
        ELSE LET seconds  == acc.value.length
                 interval == Trunc(RDiv(N(24 * 3600),
                                        Get(comms_details.cellular, "sessions", N(1))))
                 duration == Trunc(RMul(COMMS_CONFIGS.CELLULAR.default_schedule.duration, N(60)))
                 passes   == RangeLen(seconds, interval)
                 sessions == GuardedLen(seconds, interval, N(duration))
             IN  IF interval = 0 THEN Raise("ValueError")
                 ELSE Return(Added(acc.value,
                     <<[part |-> "cellular_startup", first |-> 0, step |-> interval,
                        iterations |-> passes, count |-> sessions, offset |-> 0, length |-> 1,
                        power |-> COMMS_CONFIGS.CELLULAR.power_modes.startup.power],
                       [part |-> "cellular_active", first |-> 0, step |-> interval,
                        iterations |-> passes, count |-> sessions, offset |-> 1,
                        length |-> duration - 1,
                        power |-> COMMS_CONFIGS.CELLULAR.power_modes.active.power]>>))

\* 5. LoRa: transmissions of the table's typical duration, and the receive
\* power times rx_duty_cycle (0.1 when the details have none) on every sample.
TimelineLora(acc, consumption_data) ==
    LET comms_details == consumption_data.communications.details
    IN  IF ~Returned(acc) THEN acc
        ELSE IF ~Truthy(comms_details, "lora") THEN acc
        ELSE IF Get(comms_details.lora, "messages", N(24)) = Zero
        THEN Raise("ZeroDivisionError")
        ELSE LET seconds  == acc.value.length
                 interval == Trunc(RDiv(N(24 * 3600), Get(comms_details.lora, "messages", N(24))))
                 duration == Trunc(COMMS_CONFIGS.LORA.power_modes.tx.typical_duration)
                 tx == <<[part |-> "lora_tx", first |-> 0, step |-> interval,
                          iterations |-> RangeLen(seconds, interval),
                          count |-> GuardedLen(seconds, interval, N(duration)),
                          offset |-> 0, length |-> duration,
                          power |-> COMMS_CONFIGS.LORA.power_modes.tx.power]>>
                 rx == IF Get(comms_details.lora, "rx_enabled", FALSE)
                       THEN <<Whole("lora_rx", seconds,
                                    RMul(COMMS_CONFIGS.LORA.power_modes.rx.power,
                                         Get(comms_details.lora, "rx_duty_cycle", Q(1, 10))))>>
                       ELSE <<>>
             IN  IF interval = 0 THEN Raise("ValueError")
                 ELSE Return(Added(acc.value, tx \o rx))

\* 6. The co-processor: windows of active_mwh / average_mw hours at average_mw.
TimelineCoprocessor(acc, consumption_data) ==
    LET coprocessor == consumption_data.coprocessor
        details     == Get(coprocessor, "details", <<>>)
    IN  IF ~Returned(acc) THEN acc
        ELSE IF ~RGt(Get(coprocessor, "total", Zero), Zero) THEN acc
        ELSE IF Get(details, "windows", N(1)) = Zero THEN Raise("ZeroDivisionError")
        ELSE IF Get(details, "average_mw", N(1)) = Zero THEN Raise("ZeroDivisionError")
        ELSE LET seconds  == acc.value.length
                 interval == Trunc(RDiv(N(24 * 3600), Get(details, "windows", N(1))))
                 duration == TruncSeconds(RDiv(Get(details, "active_mwh", Zero),
                                               Get(details, "average_mw", N(1))))
             IN  IF interval = 0 THEN Raise("ValueError")
                 ELSE Return(Added(acc.value,
                     <<[part |-> "coprocessor", first |-> 0, step |-> interval,
                        iterations |-> RangeLen(seconds, interval),
                        count |-> GuardedLen(seconds, interval, N(duration)),
                        offset |-> 0, length |-> duration,
                        power |-> Get(details, "average_mw", Zero)]>>))

calculate_power_timeline(consumption_data, hrs) ==
    TimelineCoprocessor(
        TimelineLora(
            TimelineCellular(
                TimelineGps(
                    TimelinePolled(
                        TimelineContinuous(TimelineZeros(hrs), consumption_data, hrs),
                        consumption_data),
                    consumption_data),
                consumption_data),
            consumption_data),
        consumption_data)

\* A slice bound as numpy reads it on an array of length len.
SliceBound(i, len) == IF i < 0 THEN Max(i + len, 0) ELSE Min(i, len)

SliceStart(add, k, len) == SliceBound(add.first + k * add.step + add.offset, len)

SliceStop(add, k, len) == SliceBound(add.first + k * add.step + add.offset + add.length, len)

\* The slices of an addition lie inside the array as written.
Regular(add, len) ==
    \/ add.count = 0
    \/ /\ add.length >= 0
       /\ add.first + add.offset >= 0
       /\ add.first + (add.count - 1) * add.step + add.offset + add.length <= len

\* The number of samples the first k slices of an addition cover, with repeats.
RECURSIVE SlicedSamples(_, _, _)
SlicedSamples(add, k, len) ==
    IF k = 0 THEN 0
    ELSE SlicedSamples(add, k - 1, len) +
         Max(SliceStop(add, k - 1, len) - SliceStart(add, k - 1, len), 0)

CoveredSamples(add, len) ==
    IF Regular(add, len) THEN add.count * add.length ELSE SlicedSamples(add, add.count, len)

\* sum(timeline), over the first n additions.
RECURSIVE SumAdds(_, _)
SumAdds(tl, n) ==
    IF n = 0 THEN Zero
    ELSE RAdd(SumAdds(tl, n - 1), RMul(tl.adds[n].power, N(CoveredSamples(tl.adds[n], tl.length))))

SumTimeline(tl) == SumAdds(tl, Len(tl.adds))

\* The number of slices of an addition that hold sample i, counted one by one.
CoveringSlices(add, i, len) ==
    Cardinality({k \in 0 .. add.count - 1 :
                    SliceStart(add, k, len) <= i /\ i < SliceStop(add, k, len)})

\* The same number; for slices inside the array at a positive step they are
\* the k with  first + offset + k * step <= i < first + offset + k * step + length.
Covering(add, i, len) ==
    IF Regular(add, len) /\ add.step > 0 /\ add.count > 0
    THEN LET base == add.first + add.offset
             last == Min((i - base) \div add.step, add.count - 1)
             from == Max(-((base + add.length - 1 - i) \div add.step), 0)
         IN  Max(last - from + 1, 0)
    ELSE CoveringSlices(add, i, len)

\* timeline[i], over the first n additions.
RECURSIVE SampleAdds(_, _, _)
SampleAdds(tl, i, n) ==
    IF n = 0 THEN Zero
    ELSE RAdd(SampleAdds(tl, i, n - 1),
              RMul(tl.adds[n].power, N(Covering(tl.adds[n], i, tl.length))))

Sample(tl, i) == SampleAdds(tl, i, Len(tl.adds))

(***************************************************************************)
(* Inputs.  The calculators take any numbers; the sets below hold the      *)
(* values of the built-in profiles and tables, the zero and negative       *)
(* edges, and schedules that exceed the horizon.                           *)
(***************************************************************************)
MaxFrequencyStep == 2
MaxDurationTenths == 1
MaxShortHours == 1
MaxGpsFrequency == 6
MaxSessionsPerDay == 2
MaxDailySteps == 2

Horizons == {N(0), N(24)} \cup {N(h) : h \in 1 .. MaxShortHours}

Disabled == [enabled |-> FALSE]

\* A sensor's config: off, the table's typical or low_power mode, or powers
\* of the caller's own (a sleep power above the active power).
SensorChoices(id) ==
    {Disabled,
     [enabled |-> TRUE, active_power |-> SENSOR_CONFIGS[id].typical.active,
                        sleep_power  |-> SENSOR_CONFIGS[id].typical.sleep],
     [enabled |-> TRUE, active_power |-> SENSOR_CONFIGS[id].low_power.active,
                        sleep_power  |-> SENSOR_CONFIGS[id].low_power.sleep],
     [enabled |-> TRUE, active_power |-> N(2), sleep_power |-> N(5)]}

BaseFrequencies == {N(1), N(60)} \cup {N(1800 * k) : k \in 0 .. MaxFrequencyStep}

BaseDurations == {Q(k, 10) : k \in 0 .. MaxDurationTenths} \cup {N(2)}

SensorConfigs ==
    {[LSM6DSV |-> a, MMC5983MA |-> b, TSL2591 |-> c, BME280 |-> d,
      base_frequency_per_hour |-> f, base_duration_seconds |-> t] :
        a \in SensorChoices("LSM6DSV"), b \in SensorChoices("MMC5983MA"),
        c \in SensorChoices("TSL2591"), d \in SensorChoices("BME280"),
        f \in BaseFrequencies, t \in BaseDurations}

GpsChoices ==
    {Disabled} \cup
    {[enabled |-> TRUE, active_power |-> COMMS_CONFIGS.GPS.power_modes.tracking.power,
      frequency_per_hour |-> f, duration_seconds |-> t] :
        f \in {N(-1), Q(1, 10), N(60)} \cup {N(k) : k \in 0 .. MaxGpsFrequency},
        t \in {N(1), N(30), N(60)}}

CellularChoices ==
    {Disabled} \cup
    {[enabled |-> TRUE, active_power |-> p, frequency_per_day |-> f, duration_minutes |-> t] :
        p \in {COMMS_CONFIGS.CELLULAR.power_modes.active.power, N(250)},
        f \in {N(24)} \cup {N(k) : k \in 0 .. MaxSessionsPerDay},
        t \in {N(1), N(5), N(10)}}

\* A dict without some of its keys.
Without(d, keys) == [k \in DOMAIN d \ keys |-> d[k]]

\* LoRa: the message rate from sparse to more air time than the horizon has,
\* the receive duty cycle up to the whole horizon (0 when listening is off, as
\* the form sets it), and configs that omit the optional receive fields.
LoraFull ==
    {[enabled |-> TRUE, active_power |-> COMMS_CONFIGS.LORA.power_modes.tx.power,
      frequency_type |-> ft, frequency |-> f,
      duration_seconds |-> COMMS_CONFIGS.LORA.power_modes.tx.typical_duration,
      listen_enabled |-> l, rx_duty_cycle |-> IF l THEN r ELSE N(0)] :
        ft \in {"per_hour", "per_day"}, f \in {N(1), N(1000)}, l \in BOOLEAN,
        r \in {Q(1, 10), Q(1, 4), N(1)}}

LoraChoices ==
    {Disabled} \cup LoraFull \cup
    {Without(l, omitted) :
        l \in {c \in LoraFull : c.frequency = N(1)},
        omitted \in {{"rx_duty_cycle"}, {"listen_enabled"}, {"rx_duty_cycle", "listen_enabled"}}}

\* The radios of the built-in profiles (DEFAULT_PROFILES).
ProfileGps(f) ==
    [enabled |-> TRUE, active_power |-> COMMS_CONFIGS.GPS.power_modes.tracking.power,
     frequency_per_hour |-> N(f), duration_seconds |-> N(30)]

ProfileCellular(t) ==
    [enabled |-> TRUE, active_power |-> COMMS_CONFIGS.CELLULAR.power_modes.active.power,
     frequency_per_day |-> N(24), duration_minutes |-> N(t)]

ProfileLora ==
    [enabled |-> TRUE, active_power |-> COMMS_CONFIGS.LORA.power_modes.tx.power,
     frequency_type |-> "per_hour", frequency |-> N(1),
     duration_seconds |-> COMMS_CONFIGS.LORA.power_modes.tx.typical_duration,
     listen_enabled |-> TRUE, rx_duty_cycle |-> Q(1, 10)]

ProfileComms ==
    {[gps |-> ProfileGps(1),  cellular |-> ProfileCellular(1), lora |-> Disabled],
     [gps |-> ProfileGps(60), cellular |-> ProfileCellular(5), lora |-> Disabled],
     [gps |-> ProfileGps(6),  cellular |-> ProfileCellular(1), lora |-> ProfileLora]}

\* One radio ranges over its choices beside the others off or as in a profile.
CommsConfigs ==
    ProfileComms \cup
    {[gps |-> g, cellular |-> c, lora |-> Disabled] :
        g \in GpsChoices, c \in {Disabled, ProfileCellular(1)}} \cup
    {[gps |-> g, cellular |-> c, lora |-> Disabled] :
        g \in {Disabled, ProfileGps(6)}, c \in CellularChoices} \cup
    {[gps |-> Disabled, cellular |-> Disabled, lora |-> l] : l \in LoraChoices}

\* The configs of the three built-in profiles, and no config at all.
DefaultSensorConfig ==
    [LSM6DSV |-> Disabled, MMC5983MA |-> Disabled, TSL2591 |-> Disabled, BME280 |-> Disabled,
     base_frequency_per_hour |-> N(60), base_duration_seconds |-> Q(1, 10)]

DefaultCommsConfig == [gps |-> Disabled, cellular |-> Disabled, lora |-> Disabled]

DefaultFactors == BATTERY_CONFIGS.standard.typical_derating

(***************************************************************************)
(* The calls.  Each specification draws the arguments of one calculator in *)
(* Init and calls it; a call may be repeated.                              *)
(***************************************************************************)
\* A page on which no results were put.
Page(button) ==
    [button |-> button, calculation |-> Raise("not called"), metrics |-> <<>>,
     rendered |-> <<>>, timeline |-> Raise("not called"), raised |-> "none"]

InitRest ==
    /\ called = "none"
    /\ result = Raise("not called")
    /\ timeline = Raise("not called")
    /\ calls = {}
    /\ selected_profile = "Custom"
    /\ session_state = <<>>
    /\ page = Page("none")

\* Faulty variant: the consumption dict kept between calls, so that a later
\* call adds its total to the total of the call before.
CallSensor_Accumulating ==
    /\ called' = "calculate_sensor_consumption"
    /\ result' =
          LET fresh == calculate_sensor_consumption(sensors_config, hours)
              kept  == {c \in calls : c[1] = "calculate_sensor_consumption"}
          IN  IF kept # {} /\ Returned(fresh)
              THEN Return([fresh.value EXCEPT !.total = RAdd(@, fresh.value.total)])
              ELSE fresh
    /\ calls' = calls \cup {<<called', result'>>}
    /\ UNCHANGED <<inputs, ui, timeline>>

CallSensor ==
    /\ called' = "calculate_sensor_consumption"
    /\ result' = calculate_sensor_consumption(sensors_config, hours)
    /\ calls' = calls \cup {<<called', result'>>}
    /\ UNCHANGED <<inputs, ui, timeline>>

InitSensor ==
    /\ sensors_config \in SensorConfigs
    /\ hours \in Horizons
    /\ comms_config = DefaultCommsConfig
    /\ coprocessor_config = Disabled
    /\ efficiency_factors = DefaultFactors
    /\ battery_capacity_wh = BATTERY_CONFIGS.standard.capacity
    /\ daily_consumption_mwh = Zero
    /\ InitRest

NextSensor == CallSensor

SpecSensor == InitSensor /\ [][NextSensor]_vars

CallComms ==
    /\ called' = "calculate_comms_consumption"
    /\ result' = calculate_comms_consumption(comms_config, hours)
    /\ calls' = calls \cup {<<called', result'>>}
    /\ UNCHANGED <<inputs, ui, timeline>>

InitComms ==
    /\ comms_config \in CommsConfigs
    /\ hours \in Horizons
    /\ sensors_config = DefaultSensorConfig
    /\ coprocessor_config = Disabled
    /\ efficiency_factors = DefaultFactors
    /\ battery_capacity_wh = BATTERY_CONFIGS.standard.capacity
    /\ daily_consumption_mwh = Zero
    /\ InitRest

NextComms == CallComms

SpecComms == InitComms /\ [][NextComms]_vars

\* Arguments of calculate_total_consumption.  The arithmetic is in TLC's
\* 32-bit integers, so these configs keep the totals' numerators in range.
OneSensor(id, choice, f, t) ==
    [DefaultSensorConfig EXCEPT ![id] = choice,
                                !.base_frequency_per_hour = f, !.base_duration_seconds = t]

CustomSensor(active, sleep) == [enabled |-> TRUE, active_power |-> active, sleep_power |-> sleep]

TotalSensorConfigs ==
    {DefaultSensorConfig,
     OneSensor("LSM6DSV", CustomSensor(SENSOR_CONFIGS.LSM6DSV.typical.active,
                                       SENSOR_CONFIGS.LSM6DSV.typical.sleep), N(60), Q(1, 10)),
     OneSensor("MMC5983MA", CustomSensor(N(2), Q(1, 2)), N(60), Q(1, 10)),
     OneSensor("BME280", CustomSensor(N(2), N(5)), N(3600), N(2))}

TotalCommsConfigs ==
    {DefaultCommsConfig,
     [gps |-> ProfileGps(1), cellular |-> ProfileCellular(1), lora |-> Disabled],
     [gps |-> ProfileGps(6), cellular |-> ProfileCellular(1), lora |-> ProfileLora],
     [gps |-> [ProfileGps(0) EXCEPT !.duration_seconds = N(60)],
      cellular |-> Disabled, lora |-> Disabled]}

TotalCoprocessorConfigs ==
    {Disabled,
     [enabled |-> TRUE, type |-> "Raspberry Pi CM4",
      active_power |-> COPROCESSOR_CONFIGS["Raspberry Pi CM4"].power_modes.typical.active,
      idle_power   |-> COPROCESSOR_CONFIGS["Raspberry Pi CM4"].power_modes.typical.idle,
      frequency_per_day |-> N(4), duration_minutes |-> N(2)],
     [enabled |-> TRUE, type |-> "Jetson Orin Nano",
      active_power |-> COPROCESSOR_CONFIGS["Jetson Orin Nano"].power_modes.typical.active,
      idle_power   |-> COPROCESSOR_CONFIGS["Jetson Orin Nano"].power_modes.typical.idle,
      frequency_per_day |-> N(1), duration_minutes |-> N(5)]}

\* Derating percentages: the sliders' range, and 0 and 150 outside it.
MaxPercentSteps == 1

Percentages == {N(0), N(85), N(150)} \cup {N(100 - 10 * k) : k \in 0 .. MaxPercentSteps}

FactorChoices ==
    {[temperature |-> t, aging |-> a, voltage |-> v] :
        t \in Percentages, a \in {N(90), N(100)}, v \in {N(0), N(85), N(95)}}

CallTotal ==
    /\ called' = "calculate_total_consumption"
    /\ result' = calculate_total_consumption(sensors_config, comms_config, coprocessor_config,
                                             efficiency_factors, hours)
    /\ calls' = calls \cup {<<called', result'>>}
    /\ UNCHANGED <<inputs, ui, timeline>>

InitTotal ==
    /\ sensors_config \in TotalSensorConfigs
    /\ comms_config \in TotalCommsConfigs
    /\ coprocessor_config \in TotalCoprocessorConfigs
    /\ efficiency_factors \in FactorChoices
    /\ hours \in Horizons
    /\ battery_capacity_wh = BATTERY_CONFIGS.standard.capacity
    /\ daily_consumption_mwh = Zero
    /\ InitRest

NextTotal == CallTotal

SpecTotal == InitTotal /\ [][NextTotal]_vars

\* Arguments of calculate_battery_life: the swept and the reference capacities,
\* and daily consumptions on both sides of zero.
Capacities ==
    {TargetBatteries[j] : j \in 1 .. Len(TargetBatteries)} \cup
    {SweepCapacity(i) : i \in 0 .. SweepPoints - 1}

DailyChoices == {N(-1), Q(1, 2), N(1000)} \cup {N(250 * k) : k \in 0 .. MaxDailySteps}

CallBatteryLife ==
    /\ called' = "calculate_battery_life"
    /\ result' = Return(calculate_battery_life(battery_capacity_wh, daily_consumption_mwh))
    /\ calls' = calls \cup {<<called', result'>>}
    /\ UNCHANGED <<inputs, ui, timeline>>

CallPlotBatteryLife ==
    /\ called' = "plot_battery_life"
    /\ result' = Return(plot_battery_life(daily_consumption_mwh))
    /\ calls' = calls \cup {<<called', result'>>}
    /\ UNCHANGED <<inputs, ui, timeline>>

InitBattery ==
    /\ battery_capacity_wh \in Capacities
    /\ daily_consumption_mwh \in DailyChoices
    /\ sensors_config = DefaultSensorConfig
    /\ comms_config = DefaultCommsConfig
    /\ coprocessor_config = Disabled
    /\ efficiency_factors = DefaultFactors
    /\ hours = N(24)
    /\ InitRest

NextBattery == CallBatteryLife \/ CallPlotBatteryLife

SpecBattery == InitBattery /\ [][NextBattery]_vars

\* Arguments of calculate_coprocessor_consumption: both boards in both power
\* modes, from no window to windows that fill more than the horizon.
MaxWindowsPerDay == 4

CoprocessorChoices ==
    {Disabled} \cup
    {[enabled |-> TRUE, type |-> ty,
      active_power |-> COPROCESSOR_CONFIGS[ty].power_modes[mode].active,
      idle_power   |-> COPROCESSOR_CONFIGS[ty].power_modes[mode].idle,
      frequency_per_day |-> f, duration_minutes |-> t] :
        ty \in DOMAIN COPROCESSOR_CONFIGS, mode \in {"typical", "max"},
        f \in {N(0), N(24), N(1440)} \cup {N(k) : k \in 1 .. MaxWindowsPerDay},
        t \in {N(1), N(5), N(60)}}

CallCoprocessor ==
    /\ called' = "calculate_coprocessor_consumption"
    /\ result' = calculate_coprocessor_consumption(coprocessor_config, hours)
    /\ calls' = calls \cup {<<called', result'>>}
    /\ UNCHANGED <<inputs, ui, timeline>>

InitCoprocessor ==
    /\ coprocessor_config \in CoprocessorChoices
    /\ hours \in Horizons
    /\ sensors_config = DefaultSensorConfig
    /\ comms_config = DefaultCommsConfig
    /\ efficiency_factors = DefaultFactors
    /\ battery_capacity_wh = BATTERY_CONFIGS.standard.capacity
    /\ daily_consumption_mwh = Zero
    /\ InitRest

NextCoprocessor == CallCoprocessor

SpecCoprocessor == InitCoprocessor /\ [][NextCoprocessor]_vars

\* Arguments of the three category calculators, called in any order.  Disabled
\* components come bare, as the forms build them, and carrying other fields
\* (the IMU's form entry keeps its powers when disabled).
DisabledSensors ==
    {Disabled,
     [enabled |-> FALSE, active_power |-> SENSOR_CONFIGS.LSM6DSV.low_power.active,
                         sleep_power  |-> SENSOR_CONFIGS.LSM6DSV.low_power.sleep],
     [enabled |-> FALSE, active_power |-> N(-1)]}

DisabledGps ==
    {Disabled,
     [enabled |-> FALSE, active_power |-> N(20), frequency_per_hour |-> N(0),
      duration_seconds |-> N(-30)],
     [enabled |-> FALSE, frequency_per_hour |-> N(6)]}

DisabledCellular ==
    {Disabled,
     [enabled |-> FALSE, active_power |-> N(500), frequency_per_day |-> N(-1),
      duration_minutes |-> N(10)],
     [enabled |-> FALSE, duration_minutes |-> N(1)]}

DisabledLora ==
    {Disabled,
     [enabled |-> FALSE, active_power |-> N(100), frequency_type |-> "per_week",
      frequency |-> N(1000), duration_seconds |-> N(5), listen_enabled |-> TRUE,
      rx_duty_cycle |-> N(5)],
     [enabled |-> FALSE, listen_enabled |-> TRUE]}

DisabledCoprocessors ==
    {Disabled,
     [enabled |-> FALSE, type |-> "no such board", active_power |-> N(7000),
      idle_power |-> N(400), frequency_per_day |-> N(0), duration_minutes |-> N(-5)],
     [enabled |-> FALSE, type |-> "Jetson Orin Nano"]}

CalculatorSensorConfigs ==
    {[LSM6DSV |-> a, MMC5983MA |-> b, TSL2591 |-> Disabled, BME280 |-> d,
      base_frequency_per_hour |-> f, base_duration_seconds |-> Q(1, 10)] :
        a \in SensorChoices("LSM6DSV") \cup DisabledSensors,
        b \in {Disabled, CustomSensor(N(2), Q(1, 2))},
        d \in SensorChoices("BME280") \cup DisabledSensors,
        f \in {N(60), N(3600)}}

CalculatorCommsConfigs ==
    CommsConfigs \cup
    {[gps |-> g, cellular |-> c, lora |-> l] :
        g \in DisabledGps \cup {ProfileGps(1)},
        c \in DisabledCellular \cup {ProfileCellular(1)},
        l \in DisabledLora}

CalculatorCoprocessorConfigs == CoprocessorChoices \cup DisabledCoprocessors

InitCalculators ==
    /\ \/ /\ sensors_config \in CalculatorSensorConfigs
          /\ comms_config = DefaultCommsConfig
          /\ coprocessor_config = Disabled
       \/ /\ sensors_config = DefaultSensorConfig
          /\ comms_config \in CalculatorCommsConfigs
          /\ coprocessor_config = Disabled
       \/ /\ sensors_config = DefaultSensorConfig
          /\ comms_config = DefaultCommsConfig
          /\ coprocessor_config \in CalculatorCoprocessorConfigs
       \/ /\ sensors_config \in TotalSensorConfigs
          /\ comms_config \in TotalCommsConfigs
          /\ coprocessor_config \in TotalCoprocessorConfigs
    /\ hours \in Horizons
    /\ efficiency_factors = DefaultFactors
    /\ battery_capacity_wh = BATTERY_CONFIGS.standard.capacity
    /\ daily_consumption_mwh = Zero
    /\ InitRest

NextCalculators == CallSensor \/ CallComms \/ CallCoprocessor

SpecCalculators == InitCalculators /\ [][NextCalculators]_vars

\* The timeline of an aggregate: calculate_total_consumption, then
\* calculate_power_timeline on what it returned, over the same horizon.
\* Schedules whose interval does not divide the day: 13 fixes (every 6646 s)
\* and 7 sessions (every 12342 s) put their last event within seconds of the
\* end of the day.
UnevenCommsConfigs ==
    {[gps |-> [ProfileGps(6) EXCEPT !.frequency_per_hour = Q(13, 24)], cellular |-> Disabled,
      lora |-> Disabled],
     [gps |-> Disabled, cellular |-> [ProfileCellular(1) EXCEPT !.frequency_per_day = N(7)],
      lora |-> Disabled]}

TimelineSensorConfigs ==
    TotalSensorConfigs \cup
    {OneSensor("MMC5983MA", CustomSensor(SENSOR_CONFIGS.MMC5983MA.typical.active,
                                         SENSOR_CONFIGS.MMC5983MA.typical.sleep), N(60), N(1))}

TimelineCommsConfigs ==
    TotalCommsConfigs \cup
    {[gps |-> [ProfileGps(6) EXCEPT !.duration_seconds = t], cellular |-> Disabled,
      lora |-> Disabled] : t \in {N(5), N(30)}} \cup
    {[gps |-> Disabled, cellular |-> ProfileCellular(t), lora |-> Disabled] : t \in {1, 10}} \cup
    {[gps |-> Disabled, cellular |-> Disabled, lora |-> l] :
        l \in {ProfileLora, [ProfileLora EXCEPT !.rx_duty_cycle = Q(1, 4)],
               [ProfileLora EXCEPT !.listen_enabled = FALSE, !.rx_duty_cycle = N(0)]}} \cup
    UnevenCommsConfigs

\* (The Jetson's powers are whole milliwatts; the sums stay in range.)
TimelineCoprocessorConfigs ==
    {Disabled} \cup
    {[enabled |-> TRUE, type |-> "Jetson Orin Nano",
      active_power |-> COPROCESSOR_CONFIGS["Jetson Orin Nano"].power_modes[mode].active,
      idle_power   |-> COPROCESSOR_CONFIGS["Jetson Orin Nano"].power_modes[mode].idle,
      frequency_per_day |-> f, duration_minutes |-> N(5)] :
        mode \in {"typical", "max"}, f \in {N(0), N(1), N(4)}}

\* Misconfigured arguments: negative powers and a negative duration, which
\* make a category's energy negative.
MisconfiguredSensorConfigs ==
    {OneSensor("LSM6DSV", CustomSensor(N(-2), N(0)), N(60), Q(1, 10)),
     OneSensor("MMC5983MA", CustomSensor(N(-2), N(-1)), N(60), Q(1, 10))}

MisconfiguredCommsConfigs ==
    {[gps |-> [ProfileGps(1) EXCEPT !.active_power = N(-20)], cellular |-> Disabled,
      lora |-> Disabled],
     [gps |-> Disabled, cellular |-> [ProfileCellular(1) EXCEPT !.active_power = N(-500)],
      lora |-> Disabled],
     [gps |-> Disabled, cellular |-> Disabled,
      lora |-> [ProfileLora EXCEPT !.active_power = N(-100)]]}

MisconfiguredCoprocessorConfigs ==
    {[enabled |-> TRUE, type |-> "Jetson Orin Nano", active_power |-> N(7000),
      idle_power |-> N(400), frequency_per_day |-> N(1), duration_minutes |-> N(-5)],
     [enabled |-> TRUE, type |-> "Jetson Orin Nano", active_power |-> N(7000),
      idle_power |-> N(-400), frequency_per_day |-> N(1), duration_minutes |-> N(5)]}

\* result holds the aggregate handed over as consumption_data.
CallTimeline ==
    /\ called \in {"calculate_total_consumption", "calculate_power_timeline"}
    /\ Returned(result)
    /\ called' = "calculate_power_timeline"
    /\ timeline' = calculate_power_timeline(result.value, hours)
    /\ calls' = calls \cup {<<called', timeline'>>}
    /\ UNCHANGED <<inputs, ui, result>>

InitTimeline ==
    /\ \/ /\ sensors_config \in TimelineSensorConfigs
          /\ comms_config = DefaultCommsConfig
          /\ coprocessor_config = Disabled
       \/ /\ sensors_config = DefaultSensorConfig
          /\ comms_config \in TimelineCommsConfigs
          /\ coprocessor_config = Disabled
       \/ /\ sensors_config = DefaultSensorConfig
          /\ comms_config = DefaultCommsConfig
          /\ coprocessor_config \in TimelineCoprocessorConfigs
       \/ /\ sensors_config \in TotalSensorConfigs
          /\ comms_config \in TotalCommsConfigs
          /\ coprocessor_config \in TimelineCoprocessorConfigs
       \/ /\ sensors_config \in MisconfiguredSensorConfigs \cup {DefaultSensorConfig}
          /\ comms_config \in MisconfiguredCommsConfigs \cup {DefaultCommsConfig}
          /\ coprocessor_config \in MisconfiguredCoprocessorConfigs \cup {Disabled}
    /\ hours \in Horizons
    /\ efficiency_factors = DefaultFactors
    /\ battery_capacity_wh = BATTERY_CONFIGS.standard.capacity
    /\ daily_consumption_mwh = Zero
    /\ InitRest

NextTimeline == CallTotal \/ CallTimeline

SpecTimeline == InitTimeline /\ [][NextTimeline]_vars

\* The six calculators called in any order, any number of times, on the same
\* arguments.
InitEngine ==
    /\ sensors_config \in
          {DefaultSensorConfig,
           OneSensor("LSM6DSV", CustomSensor(SENSOR_CONFIGS.LSM6DSV.typical.active,
                                             SENSOR_CONFIGS.LSM6DSV.typical.sleep),
                     N(60), Q(1, 10))}
    /\ comms_config \in
          {DefaultCommsConfig,
           [gps |-> ProfileGps(6), cellular |-> ProfileCellular(1), lora |-> ProfileLora]}
    /\ coprocessor_config \in
          {c \in TimelineCoprocessorConfigs : c.enabled => c.frequency_per_day = N(1)}
    /\ efficiency_factors = DefaultFactors
    /\ hours \in Horizons
    /\ battery_capacity_wh = BATTERY_CONFIGS.standard.capacity
    /\ daily_consumption_mwh \in {Zero, N(1000)}
    /\ InitRest

NextEngine ==
    \/ CallSensor
    \/ CallComms
    \/ CallCoprocessor
    \/ CallTotal
    \/ CallBatteryLife
    \/ CallTimeline

SpecEngine == InitEngine /\ [][NextEngine]_vars

(***************************************************************************)
(* The application: display_results and main.                              *)
(***************************************************************************)
\* The built-in profiles.
ProfileSensor(id, mode) ==
    [enabled |-> TRUE, active_power |-> SENSOR_CONFIGS[id][mode].active,
                       sleep_power  |-> SENSOR_CONFIGS[id][mode].sleep]

ProfileSensors(mode, base_frequency) ==
    [LSM6DSV |-> ProfileSensor("LSM6DSV", mode), MMC5983MA |-> ProfileSensor("MMC5983MA", mode),
     TSL2591 |-> ProfileSensor("TSL2591", mode), BME280 |-> ProfileSensor("BME280", mode),
     base_frequency_per_hour |-> base_frequency, base_duration_seconds |-> Q(1, 10)]

DEFAULT_PROFILES ==
    [p \in {"Dumb Tracker", "Phase I Tracker", "Recommended"} |->
        CASE p = "Dumb Tracker" ->
               [description |->
                    "Basic tracker with minimal processing - LTE, GPS and environmental sensors polling hourly",
                sensor_config |->
                    [LSM6DSV |-> Disabled, MMC5983MA |-> Disabled, TSL2591 |-> Disabled,
                     BME280 |-> ProfileSensor("BME280", "low_power"),
                     base_frequency_per_hour |-> N(1), base_duration_seconds |-> Q(1, 10)],
                comms_config |->
                    [gps |-> ProfileGps(1), cellular |-> ProfileCellular(1), lora |-> Disabled],
                coprocessor_config |-> Disabled]
          [] p = "Phase I Tracker" ->
               [description |->
                    "High-power continuous monitoring with all sensors and co-processor active",
                sensor_config |-> ProfileSensors("typical", N(60)),
                comms_config |->
                    [gps |-> ProfileGps(60), cellular |-> ProfileCellular(5), lora |-> Disabled],
                coprocessor_config |->
                    [enabled |-> TRUE, type |-> "Jetson Orin Nano",
                     active_power |->
                         COPROCESSOR_CONFIGS["Jetson Orin Nano"].power_modes.typical.active,
                     idle_power |->
                         COPROCESSOR_CONFIGS["Jetson Orin Nano"].power_modes.typical.idle,
                     frequency_per_day |-> N(24), duration_minutes |-> N(60)]]
          [] p = "Recommended" ->
               [description |->
                    "Optimized power profile with balanced monitoring and processing using LoRa and CM4",
                sensor_config |-> ProfileSensors("low_power", N(60)),
                comms_config |->
                    [gps |-> ProfileGps(6), cellular |-> ProfileCellular(1), lora |-> ProfileLora],
                coprocessor_config |->
                    [enabled |-> TRUE, type |-> "Raspberry Pi CM4", power_mode |-> "typical",
                     active_power |->
                         COPROCESSOR_CONFIGS["Raspberry Pi CM4"].power_modes.typical.active,
                     idle_power |->
                         COPROCESSOR_CONFIGS["Raspberry Pi CM4"].power_modes.typical.idle,
                     frequency_per_day |-> N(4), duration_minutes |-> N(2)]]]

\* plot_power_distribution reads keys every aggregate has and draws; it
\* returns its figure.
plot_power_distribution(consumption_data) == Return("figure")

\* plot_power_profile builds a day of samples per component.  Its loops run
\* over range(0, seconds, interval); the first interval that cannot be
\* computed, or is 0, ends the call.
ProfileInterval(present, count, interval) ==
    IF ~present THEN "none"
    ELSE IF count = Zero THEN "ZeroDivisionError"
    ELSE IF interval = 0 THEN "ValueError"
    ELSE "none"

plot_power_profile(consumption_data) ==
    LET details == consumption_data.communications.details
        hrs == N(24)
        gps == Get(Get(details, "gps", <<>>), "updates", N(24))
        cellular == Get(Get(details, "cellular", <<>>), "sessions", N(1))
        lora == LET d == Get(details, "lora", <<>>)
                IN  RMul(IF Get(d, "frequency_type", "none") = "per_hour" THEN N(24) ELSE N(1),
                         Get(d, "frequency", N(1)))
        coprocessor == Get(Get(consumption_data.coprocessor, "details", <<>>), "windows", N(1))
        failures ==
            <<ProfileInterval(Has(details, "gps"), gps,
                              IF gps = Zero THEN 0 ELSE Trunc(RMul(RDiv(N(3600), gps), hrs))),
              ProfileInterval(Has(details, "cellular"), cellular,
                              IF cellular = Zero THEN 0 ELSE Trunc(RDiv(N(24 * 3600), cellular))),
              ProfileInterval(Has(details, "lora"), lora,
                              IF lora = Zero THEN 0 ELSE Trunc(RDiv(N(24 * 3600), lora))),
              ProfileInterval(RGt(Get(consumption_data.coprocessor, "total", Zero), Zero),
                              coprocessor,
                              IF coprocessor = Zero THEN 0
                              ELSE Trunc(RDiv(N(24 * 3600), coprocessor)))>>
        failed == SelectSeq(failures, LAMBDA e : e # "none")
    IN  IF failed = <<>> THEN Return("figure") ELSE Raise(failed[1])

\* display_results puts the three metrics on the page, then the tabs one
\* after another; an exception in a step ends it there and leaves it.  The
\* outcome is the page: what was rendered, the outcome of
\* calculate_power_timeline if it was called, and the exception, if any.
DisplayMetrics(consumption_data) ==
    [average_power_mw  |-> consumption_data.average_power_mw,
     derated_total_mwh |-> consumption_data.derated_total_mwh,
     efficiency        |-> RMul(consumption_data.efficiency, N(100))]

display_results(consumption_data, battery_config) ==
    LET shown == [Page("Calculate Battery Life") EXCEPT
                     !.calculation = Return(consumption_data),
                     !.metrics = DisplayMetrics(consumption_data),
                     !.rendered = <<"metrics">>]
        fig_dist  == plot_power_distribution(consumption_data)
        tabs12    == <<"metrics", "Power Distribution", "Component Details",
                       "Battery Life Analysis", "Expected Battery Life">>
        fig_power == plot_power_profile(consumption_data)
        made      == calculate_power_timeline(consumption_data, N(24))
    IN  IF ~Returned(fig_dist) THEN [shown EXCEPT !.raised = fig_dist.raised]
        ELSE IF ~Returned(fig_power)
        THEN [shown EXCEPT !.rendered = tabs12, !.raised = fig_power.raised]
        ELSE IF ~Returned(made)
        THEN [shown EXCEPT !.rendered = tabs12 \o <<"24-Hour Power Profile">>,
                           !.timeline = made, !.raised = made.raised]
        ELSE [shown EXCEPT !.rendered = tabs12 \o <<"24-Hour Power Profile", "Power Statistics">>,
                           !.timeline = made]

\* d[k] = v on a dict.
Put(d, k, v) == [j \in DOMAIN d \cup {k} |-> IF j = k THEN v ELSE d[j]]

\* The form.  create_sensor_section takes the IMU's entry from the loaded
\* profile, not from a widget: enabled as the profile says (on without a
\* profile), in typical mode when enabled and low_power otherwise.
CurrentProfile(state) == Get(state, "current_profile", <<>>)

FormImu(state) ==
    LET default_config == Get(CurrentProfile(state), "sensor_config", <<>>)
        imu_enabled == Get(Get(default_config, "LSM6DSV", <<>>), "enabled", TRUE)
        imu_mode == IF imu_enabled THEN "typical" ELSE "low_power"
    IN  [enabled |-> imu_enabled, active_power |-> SENSOR_CONFIGS.LSM6DSV[imu_mode].active,
         sleep_power |-> SENSOR_CONFIGS.LSM6DSV[imu_mode].sleep]

\* Values the widgets can hold: the number inputs have a minimum and no
\* maximum, so 3601 fixes and 36000 messages per hour can be entered.
FormSensorConfigs(state) == {[DefaultSensorConfig EXCEPT !.LSM6DSV = FormImu(state)]}

FormCommsConfigs ==
    {DefaultCommsConfig,
     [gps |-> ProfileGps(1), cellular |-> ProfileCellular(1), lora |-> Disabled],
     [gps |-> [ProfileGps(3601) EXCEPT !.duration_seconds = N(1)], cellular |-> Disabled,
      lora |-> Disabled],
     [gps |-> Disabled, cellular |-> Disabled,
      lora |-> [ProfileLora EXCEPT !.frequency = N(36000), !.duration_seconds = Q(1, 10),
                                   !.listen_enabled = FALSE, !.rx_duty_cycle = N(0)]]}

FormCoprocessorConfigs ==
    {Disabled,
     [enabled |-> TRUE, type |-> "Jetson Orin Nano",
      active_power |-> COPROCESSOR_CONFIGS["Jetson Orin Nano"].power_modes.typical.active,
      idle_power   |-> COPROCESSOR_CONFIGS["Jetson Orin Nano"].power_modes.typical.idle,
      frequency_per_day |-> N(1), duration_minutes |-> N(5)]}

Form(state) ==
    /\ sensors_config' \in FormSensorConfigs(state)
    /\ comms_config' \in FormCommsConfigs
    /\ coprocessor_config' \in FormCoprocessorConfigs
    /\ UNCHANGED <<efficiency_factors, hours, battery_capacity_wh, daily_consumption_mwh>>

\* The calculators' own history is not the application's.
Uncalled == UNCHANGED <<called, result, timeline, calls>>

\* A run after the selectbox changed: no button is pressed.
SelectProfile ==
    /\ selected_profile' \in {"Custom"} \cup DOMAIN DEFAULT_PROFILES
    /\ selected_profile' # selected_profile
    /\ page' = Page("none")
    /\ UNCHANGED <<inputs, session_state>>
    /\ Uncalled

\* A run after a widget of the form changed.
EditForm ==
    /\ Form(session_state)
    /\ page' = Page("none")
    /\ UNCHANGED <<selected_profile, session_state>>
    /\ Uncalled

\* Faulty variant: loading a profile starts the session state afresh.
LoadProfile_Clearing ==
    /\ selected_profile # "Custom"
    /\ session_state' = [current_profile |-> DEFAULT_PROFILES[selected_profile]]
    /\ Form(session_state')
    /\ page' = Page("Load Profile")
    /\ UNCHANGED selected_profile
    /\ Uncalled

\* "Load Profile": the profile is stored and the script run again, which
\* builds the form with the profile's values as defaults.
LoadProfile ==
    /\ selected_profile # "Custom"
    /\ session_state' = Put(session_state, "current_profile", DEFAULT_PROFILES[selected_profile])
    /\ Form(session_state')
    /\ page' = Page("Load Profile")
    /\ UNCHANGED selected_profile
    /\ Uncalled

\* Faulty variant: the result is stored after it was displayed, so only when
\* display_results returned.
Calculate_StoreAfterDisplay ==
    \E consumption_data \in
           {calculate_total_consumption(sensors_config, comms_config, coprocessor_config,
                                        efficiency_factors, N(24))} :
        LET battery_config == [capacity |-> battery_capacity_wh,
                               derating |-> efficiency_factors]
        IN  /\ IF Returned(consumption_data)
               THEN /\ page' = display_results(consumption_data.value, battery_config)
                    /\ session_state' =
                           IF page'.raised = "none"
                           THEN Put(session_state, "last_calculation", consumption_data.value)
                           ELSE session_state
               ELSE /\ session_state' = session_state
                    /\ page' = [Page("Calculate Battery Life") EXCEPT
                                   !.calculation = consumption_data,
                                   !.raised = consumption_data.raised]
            /\ UNCHANGED <<inputs, selected_profile>>
            /\ Uncalled

\* "Calculate Battery Life": the engine is called with the form's values and
\* the default horizon; its result is stored, then displayed.
Calculate ==
    \E consumption_data \in
           {calculate_total_consumption(sensors_config, comms_config, coprocessor_config,
                                        efficiency_factors, N(24))} :
        LET battery_config == [capacity |-> battery_capacity_wh,
                               derating |-> efficiency_factors]
        IN  /\ IF Returned(consumption_data)
               THEN /\ session_state' =
                           Put(session_state, "last_calculation", consumption_data.value)
                    /\ page' = display_results(consumption_data.value, battery_config)
               ELSE /\ session_state' = session_state
                    /\ page' = [Page("Calculate Battery Life") EXCEPT
                                   !.calculation = consumption_data,
                                   !.raised = consumption_data.raised]
            /\ UNCHANGED <<inputs, selected_profile>>
            /\ Uncalled

InitSession ==
    /\ sensors_config \in FormSensorConfigs(<<>>)
    /\ comms_config \in FormCommsConfigs
    /\ coprocessor_config \in FormCoprocessorConfigs
    /\ efficiency_factors = DefaultFactors
    /\ hours = N(24)
    /\ battery_capacity_wh = BATTERY_CONFIGS.standard.capacity
    /\ daily_consumption_mwh = Zero
    /\ InitRest

NextSession == SelectProfile \/ EditForm \/ LoadProfile \/ Calculate

SpecSession == InitSession /\ [][NextSession]_vars

(***************************************************************************)
(* The claims.                                                             *)
(***************************************************************************)
TotalReturned == called = "calculate_total_consumption" /\ Returned(result)

Percent(k) == RDiv(efficiency_factors[k], N(100))

\* C1: whenever calculate_total_consumption returns, raw_total_mwh is the sum
\* of the three categories' totals, efficiency is the product of the three
\* percentages each divided by 100, derated_total_mwh is raw_total_mwh /
\* efficiency and average_power_mw is derated_total_mwh / hours; with 85, 90,
\* 85 the derated total is the raw total / 0.65025.
C1_AggregateFormulas ==
    TotalReturned =>
        LET c == result.value
        IN  /\ c.raw_total_mwh =
                   RAdd(RAdd(c.sensors.total, c.communications.total), c.coprocessor.total)
            /\ c.efficiency =
                   RMul(RMul(Percent("temperature"), Percent("aging")), Percent("voltage"))
            /\ c.derated_total_mwh = RDiv(c.raw_total_mwh, c.efficiency)
            /\ c.average_power_mw = RDiv(c.derated_total_mwh, hours)
            /\ (efficiency_factors = [temperature |-> N(85), aging |-> N(90), voltage |-> N(85)]
                    => c.derated_total_mwh = RDiv(c.raw_total_mwh, Q(65025, 100000)))

C1_Witness ==
    /\ TotalReturned
    /\ efficiency_factors = [temperature |-> N(85), aging |-> N(90), voltage |-> N(85)]
    /\ hours = N(1)
    /\ RGt(result.value.sensors.total, Zero)
    /\ RGt(result.value.communications.total, Zero)
    /\ RGt(result.value.coprocessor.total, Zero)

\* C2: calculate_battery_life returns capacity_Wh x 1000 / daily_mWh when
\* daily_mWh > 0 and the infinite sentinel when daily_mWh <= 0, for every
\* capacity, the swept and the two reference capacities of plot_battery_life
\* included; capacity 77 with daily 1000 gives exactly 77 days.
C2_BatteryLife ==
    LET life(capacity) ==
            IF daily_consumption_mwh[1] > 0
            THEN RDiv(RMul(capacity, N(1000)), daily_consumption_mwh)
            ELSE Inf
    IN  /\ called = "calculate_battery_life" =>
              /\ result.value = life(battery_capacity_wh)
              /\ (battery_capacity_wh = N(77) /\ daily_consumption_mwh = N(1000)
                      => result.value = N(77))
        /\ called = "plot_battery_life" =>
              /\ DOMAIN result.value.battery_lives = 0 .. 99
              /\ \A i \in 0 .. 99 :
                     result.value.battery_lives[i] = life(Q(10 * 99 + 140 * i, 99))
              /\ result.value.target_lives = <<life(N(77)), life(Q(1007, 10))>>

C2_Witness ==
    /\ called = "calculate_battery_life"
    /\ battery_capacity_wh = N(77)
    /\ daily_consumption_mwh = N(1000)
    /\ result.value = N(77)

ZeroPercentage == \E k \in {"temperature", "aging", "voltage"} : efficiency_factors[k] = Zero

\* C3: when a derating percentage is 0, so that efficiency computes to zero,
\* calculate_total_consumption reports the failure in what it returns and
\* does not end the call with an exception.
C3_ZeroEfficiencyReported ==
    (called = "calculate_total_consumption" /\ ZeroPercentage /\ hours # Zero)
        => Returned(result)

\* C4 as claimed: every aggregate calculate_total_consumption returns has
\* efficiency in (0, 1] and derated_total_mwh >= raw_total_mwh, whatever the
\* component configs and the derating triple.
C4_EfficiencyInUnitInterval ==
    TotalReturned =>
        /\ RGt(result.value.efficiency, Zero)
        /\ RLe(result.value.efficiency, N(1))
        /\ RLe(result.value.raw_total_mwh, result.value.derated_total_mwh)

PercentagesInRange ==
    \A k \in {"temperature", "aging", "voltage"} :
        RGt(efficiency_factors[k], Zero) /\ RLe(efficiency_factors[k], N(100))

\* C4 as amended: every aggregate returned for percentages that each lie in
\* (0, 100] has efficiency in (0, 1], and its derated total is >= the raw
\* total when the raw total is >= 0 and <= the raw total when it is < 0.
C4_EfficiencyInUnitIntervalInRange ==
    (TotalReturned /\ PercentagesInRange) =>
        /\ RGt(result.value.efficiency, Zero)
        /\ RLe(result.value.efficiency, N(1))
        /\ IF RLe(Zero, result.value.raw_total_mwh)
           THEN RLe(result.value.raw_total_mwh, result.value.derated_total_mwh)
           ELSE RLe(result.value.derated_total_mwh, result.value.raw_total_mwh)

C4_Witness ==
    /\ TotalReturned
    /\ PercentagesInRange
    /\ RLt(result.value.efficiency, N(1))
    /\ RLt(result.value.raw_total_mwh, result.value.derated_total_mwh)

SensorReturned == called = "calculate_sensor_consumption" /\ Returned(result)

PolledIds == {"MMC5983MA", "TSL2591", "BME280"}

EnabledSensors == {id \in PolledIds \cup {"LSM6DSV"} : sensors_config[id].enabled}

\* The energy the result holds for a sensor: nothing for a disabled one.
SensorEnergy(id) ==
    IF sensors_config[id].enabled THEN result.value.details[id].total_mwh ELSE Zero

\* C5: an enabled continuous sensor has total_mwh exactly active_power x
\* hours, with no sleep_power term; a disabled sensor has no entry in details
\* and adds 0 to continuous, polled and total.
C5_ContinuousSensor ==
    SensorReturned =>
        /\ DOMAIN result.value.details = EnabledSensors
        /\ sensors_config.LSM6DSV.enabled =>
               result.value.details.LSM6DSV.total_mwh =
                   RMul(sensors_config.LSM6DSV.active_power, hours)
        /\ result.value.continuous = SensorEnergy("LSM6DSV")
        /\ result.value.polled =
               RAdd(RAdd(SensorEnergy("MMC5983MA"), SensorEnergy("TSL2591")),
                    SensorEnergy("BME280"))
        /\ result.value.total = RAdd(result.value.continuous, result.value.polled)

C5_Witness ==
    /\ SensorReturned
    /\ hours = N(24)
    /\ sensors_config.LSM6DSV.enabled
    /\ sensors_config.LSM6DSV.sleep_power # Zero
    /\ ~sensors_config.MMC5983MA.enabled
    /\ sensors_config.BME280.enabled
    /\ result.value.details.LSM6DSV.total_mwh = Q(24 * 695, 1000)

\* active_hours as the claims state it.
ClaimedActiveHours ==
    RDiv(RMul(RMul(sensors_config.base_frequency_per_hour,
                   sensors_config.base_duration_seconds), hours), N(3600))

\* sleep_hours, the value the calculator uses.
UsedSleepHours ==
    PolledSleepHours(sensors_config.base_frequency_per_hour,
                     sensors_config.base_duration_seconds, hours)

\* C6: for every enabled polled sensor, active_hours + sleep_hours = hours
\* whenever active_hours <= hours, and total_mwh = active_power x active_hours
\* + sleep_power x sleep_hours; a base frequency or duration of zero gives
\* total_mwh = sleep_power x hours.
C6_PolledSensor ==
    SensorReturned =>
        \A id \in PolledIds \cap EnabledSensors :
            /\ RLe(ClaimedActiveHours, hours) => RAdd(ClaimedActiveHours, UsedSleepHours) = hours
            /\ result.value.details[id].total_mwh =
                   RAdd(RMul(sensors_config[id].active_power, ClaimedActiveHours),
                        RMul(sensors_config[id].sleep_power, UsedSleepHours))
            /\ (sensors_config.base_frequency_per_hour = Zero
                    \/ sensors_config.base_duration_seconds = Zero)
                   => result.value.details[id].total_mwh =
                          RMul(sensors_config[id].sleep_power, hours)

C6_Witness ==
    /\ SensorReturned
    /\ sensors_config.TSL2591.enabled
    /\ sensors_config.base_frequency_per_hour = N(60)
    /\ sensors_config.base_duration_seconds = Q(1, 10)
    /\ hours = N(24)
    /\ ClaimedActiveHours = Q(1, 25)
    /\ UsedSleepHours = Q(599, 25)

\* C7: the sleep_hours the polled-sensor calculator uses is never negative,
\* also when frequency x duration x hours / 3600 exceeds hours.
C7_SleepHoursClamped ==
    (SensorReturned /\ PolledIds \cap EnabledSensors # {}) => RLe(Zero, UsedSleepHours)

CommsReturned == called = "calculate_comms_consumption" /\ Returned(result)

\* acquisition_energy = 25.0 x 30 / 3600
ClaimedAcquisitionEnergy == Q(25 * 30, 3600)

\* C8: for an enabled GPS, updates = frequency_per_hour x hours and total_mwh
\* = acquisition_energy + (updates - 1) x active_power x duration_seconds /
\* 3600 with acquisition_energy = 25.0 x 30 / 3600; 6 per hour, 30 s and 24
\* hours give 144 updates and acquisition_energy + 143 x active_power x 30 /
\* 3600.
C8_Gps ==
    (CommsReturned /\ comms_config.gps.enabled) =>
        LET gps == comms_config.gps
            out == result.value.details.gps
        IN  /\ out.updates = RMul(gps.frequency_per_hour, hours)
            /\ out.total_mwh =
                   RAdd(ClaimedAcquisitionEnergy,
                        RDiv(RMul(RMul(RSub(out.updates, N(1)), gps.active_power),
                                  gps.duration_seconds), N(3600)))
            /\ (gps.frequency_per_hour = N(6) /\ gps.duration_seconds = N(30) /\ hours = N(24))
                   => /\ out.updates = N(144)
                      /\ out.total_mwh =
                             RAdd(ClaimedAcquisitionEnergy,
                                  RDiv(RMul(RMul(N(143), gps.active_power), N(30)), N(3600)))

C8_Witness ==
    /\ CommsReturned
    /\ comms_config.gps.enabled
    /\ comms_config.gps.frequency_per_hour = N(6)
    /\ comms_config.gps.duration_seconds = N(30)
    /\ hours = N(24)
    /\ result.value.details.gps.updates = N(144)

\* C9: an enabled GPS whose update count frequency_per_hour x hours is <= 0
\* gets no tracking energy, its total_mwh is the acquisition energy alone;
\* a disabled GPS adds no energy and no entry.
C9_NoTrackingWithoutUpdates ==
    CommsReturned =>
        IF comms_config.gps.enabled
        THEN RLe(RMul(comms_config.gps.frequency_per_hour, hours), Zero)
                 => result.value.details.gps.total_mwh = ClaimedAcquisitionEnergy
        ELSE "gps" \notin DOMAIN result.value.details

\* C10: for an enabled cellular radio, sessions = frequency_per_day x (hours
\* / 24) and total_mwh = sessions x 600 x 5 / 3600 + sessions x active_power
\* x duration_minutes x 60 / 3600; 1 per day, 10 minutes and 24 hours give 1
\* session and 600 x 5 / 3600 + active_power x 600 / 3600.
C10_Cellular ==
    (CommsReturned /\ comms_config.cellular.enabled) =>
        LET cellular == comms_config.cellular
            out == result.value.details.cellular
        IN  /\ out.sessions = RMul(cellular.frequency_per_day, RDiv(hours, N(24)))
            /\ out.total_mwh =
                   RAdd(RDiv(RMul(RMul(out.sessions, N(600)), N(5)), N(3600)),
                        RDiv(RMul(RMul(RMul(out.sessions, cellular.active_power),
                                       cellular.duration_minutes), N(60)), N(3600)))
            /\ (cellular.frequency_per_day = N(1) /\ cellular.duration_minutes = N(10)
                    /\ hours = N(24))
                   => /\ out.sessions = N(1)
                      /\ out.total_mwh =
                             RAdd(Q(600 * 5, 3600),
                                  RDiv(RMul(cellular.active_power, N(600)), N(3600)))

C10_Witness ==
    /\ CommsReturned
    /\ comms_config.cellular.enabled
    /\ comms_config.cellular.frequency_per_day = N(1)
    /\ comms_config.cellular.duration_minutes = N(10)
    /\ hours = N(24)
    /\ result.value.details.cellular.sessions = N(1)

LoraCalled == called = "calculate_comms_consumption" /\ comms_config.lora.enabled

LoraReturned == LoraCalled /\ Returned(result)

\* The claimed LoRa quantities, from the config and the receive time in seconds.
ClaimedLoraMessages ==
    LET lora == comms_config.lora
    IN  IF lora.frequency_type = "per_hour"
        THEN RMul(lora.frequency, hours)
        ELSE RDiv(RMul(lora.frequency, hours), N(24))

ClaimedLoraTx ==
    RDiv(RMul(RMul(ClaimedLoraMessages, comms_config.lora.active_power),
              comms_config.lora.duration_seconds), N(3600))

ClaimedLoraRx(rx_time) == RDiv(RMul(N(10), rx_time), N(3600))

ClaimedLoraSleepTime(rx_time) ==
    RSub(RMul(hours, N(3600)),
         RAdd(RMul(ClaimedLoraMessages, comms_config.lora.duration_seconds), rx_time))

ClaimedLoraSleep(rx_time) == RDiv(RMul(Q(15, 10000), ClaimedLoraSleepTime(rx_time)), N(3600))

ClaimedLoraTotal(rx_time) ==
    RAdd(RAdd(ClaimedLoraTx, ClaimedLoraRx(rx_time)), ClaimedLoraSleep(rx_time))

\* The receive time of a config that states both receive fields.
StatedRxTime ==
    IF comms_config.lora.listen_enabled
    THEN RMul(RMul(hours, N(3600)), comms_config.lora.rx_duty_cycle)
    ELSE Zero

LoraStated == ~Lacks(comms_config.lora, {"listen_enabled", "rx_duty_cycle"})

\* C11: for an enabled LoRa radio (both receive fields stated) the result's
\* messages is frequency * hours for "per_hour" and frequency * hours / 24
\* otherwise, and its total is tx_energy + rx_energy + sleep energy with
\* tx_energy = messages * active_power * duration_seconds / 3600, rx_energy =
\* 10 * (hours * 3600 * rx_duty_cycle) / 3600 when listening and 0 otherwise,
\* and sleep energy = 0.0015 * (hours * 3600 - (messages * duration_seconds +
\* rx_time)) / 3600.
C11_Lora ==
    (LoraReturned /\ LoraStated) =>
        LET lora == result.value.details.lora
        IN  /\ lora.messages = ClaimedLoraMessages
            /\ lora.total_mwh = ClaimedLoraTotal(StatedRxTime)

\* A per-day radio that listens, over a horizon that is not a day.
C11_Witness ==
    /\ LoraReturned /\ LoraStated
    /\ comms_config.lora.frequency_type = "per_day"
    /\ comms_config.lora.listen_enabled
    /\ hours # N(24)
    /\ result.value.details.lora.messages = RDiv(hours, N(24))

LoraOmits == Lacks(comms_config.lora, {"listen_enabled", "rx_duty_cycle"})

\* C12 as claimed: an enabled LoRa config that omits rx_duty_cycle or
\* listen_enabled is calculated without error over a non-zero horizon, and the
\* receive time and energy it uses are 0 whether or not listening is enabled.
C12_MissingReceiveFieldsAreZero ==
    (LoraCalled /\ LoraOmits /\ hours # Zero) =>
        /\ Returned(result)
        /\ result.value.details.lora.total_mwh = ClaimedLoraTotal(Zero)

\* The receive time the code uses when a receive field is omitted: none when
\* listen_enabled is omitted or false, and a duty cycle of 0.1 when listening
\* is enabled and rx_duty_cycle is omitted.
DefaultedRxTime ==
    LET lora == comms_config.lora
    IN  IF Has(lora, "listen_enabled") /\ lora.listen_enabled
        THEN RMul(RMul(hours, N(3600)),
                  IF Has(lora, "rx_duty_cycle") THEN lora.rx_duty_cycle ELSE Q(1, 10))
        ELSE Zero

\* C12: an enabled LoRa config that omits rx_duty_cycle or listen_enabled is
\* calculated without error over a non-zero horizon; an omitted listen_enabled
\* is false (receive time and energy 0), and an omitted rx_duty_cycle is 0.1
\* when listening is enabled.
C12_MissingReceiveFieldsDefaulted ==
    (LoraCalled /\ LoraOmits /\ hours # Zero) =>
        /\ Returned(result)
        /\ result.value.details.lora.total_mwh = ClaimedLoraTotal(DefaultedRxTime)
        /\ result.value.details.lora.rx_enabled =
               (Has(comms_config.lora, "listen_enabled") /\ comms_config.lora.listen_enabled)

\* A listening radio without rx_duty_cycle: a tenth of the horizon is received.
C12_Witness ==
    /\ LoraReturned
    /\ ~Has(comms_config.lora, "rx_duty_cycle")
    /\ Has(comms_config.lora, "listen_enabled") /\ comms_config.lora.listen_enabled
    /\ result.value.details.lora.total_mwh # ClaimedLoraTotal(Zero)

\* Transmit and receive time together exceed the horizon.
LoraOverHorizon ==
    /\ LoraStated
    /\ RLt(RMul(hours, N(3600)),
           RAdd(RMul(ClaimedLoraMessages, comms_config.lora.duration_seconds), StatedRxTime))

\* C13: when the LoRa transmit and receive time exceed the horizon the call
\* returns normally, with a negative sleep time whose negative sleep energy is
\* part of the total (the total is below tx_energy + rx_energy).
C13_LoraNegativeSleep ==
    (LoraCalled /\ hours # Zero /\ LoraOverHorizon) =>
        /\ Returned(result)
        /\ RLt(ClaimedLoraSleepTime(StatedRxTime), Zero)
        /\ result.value.details.lora.total_mwh = ClaimedLoraTotal(StatedRxTime)
        /\ RLt(result.value.details.lora.total_mwh,
               RAdd(ClaimedLoraTx, ClaimedLoraRx(StatedRxTime)))

\* A radio that listens all the time and still transmits.
C13_Witness ==
    /\ LoraReturned /\ LoraOverHorizon
    /\ comms_config.lora.listen_enabled
    /\ comms_config.lora.rx_duty_cycle = N(1)
    /\ RLt(result.value.details.lora.total_mwh,
           RAdd(ClaimedLoraTx, ClaimedLoraRx(StatedRxTime)))

CoprocessorCalled == called = "calculate_coprocessor_consumption"

CoprocessorReturned == CoprocessorCalled /\ Returned(result)

ClaimedWindows == RMul(coprocessor_config.frequency_per_day, RDiv(hours, N(24)))

ClaimedCoprocActiveHours ==
    RDiv(RMul(coprocessor_config.duration_minutes, ClaimedWindows), N(60))

ClaimedCoprocStartupHours ==
    RMul(RDiv(COPROCESSOR_CONFIGS[coprocessor_config.type].startup_time, N(3600)),
         ClaimedWindows)

ClaimedCoprocIdleHours ==
    RSub(RSub(hours, ClaimedCoprocActiveHours), ClaimedCoprocStartupHours)

\* The board's typical-mode active power: 7000 mW and 4000 mW.
TypicalActive == COPROCESSOR_CONFIGS[coprocessor_config.type].power_modes.typical.active

\* C14: an enabled co-processor's result has windows = frequency_per_day *
\* (hours / 24), active_mwh = active_power * (duration_minutes * windows / 60),
\* startup_mwh = the board's typical active power * (startup_time / 3600 *
\* windows) whatever the selected power mode, idle_mwh = idle_power * (hours -
\* active hours - startup hours) without clamping, and total their sum; a
\* disabled co-processor returns total 0 with empty details.
C14_Coprocessor ==
    CoprocessorCalled =>
        IF ~coprocessor_config.enabled
        THEN result = Return([total |-> Zero, details |-> <<>>])
        ELSE Returned(result) =>
                LET d == result.value.details
                IN  /\ d.windows = ClaimedWindows
                    /\ d.active_mwh = RMul(coprocessor_config.active_power, ClaimedCoprocActiveHours)
                    /\ d.startup_mwh = RMul(TypicalActive, ClaimedCoprocStartupHours)
                    /\ d.idle_mwh = RMul(coprocessor_config.idle_power, ClaimedCoprocIdleHours)
                    /\ result.value.total = RAdd(RAdd(d.startup_mwh, d.active_mwh), d.idle_mwh)

\* A board in max mode whose windows fill more than the horizon: the startup
\* is at the typical power and the idle energy is negative.
C14_Witness ==
    /\ CoprocessorReturned /\ coprocessor_config.enabled
    /\ coprocessor_config.active_power # TypicalActive
    /\ result.value.details.startup_mwh # Zero
    /\ RLt(ClaimedCoprocIdleHours, Zero)
    /\ RLt(result.value.details.idle_mwh, Zero)

SensorCalled == called = "calculate_sensor_consumption"

CommsCalled == called = "calculate_comms_consumption"

\* C15: over a horizon hours > 0 every result a category calculator returns
\* has average_mw * hours equal to its energy: each sensor detail, each of the
\* gps, cellular and lora details, and the co-processor result.
C15_AverageTimesHours ==
    (Returned(result) /\ RGt(hours, Zero)) =>
        /\ SensorCalled =>
              \A id \in DOMAIN result.value.details :
                  RMul(result.value.details[id].average_mw, hours) =
                      result.value.details[id].total_mwh
        /\ CommsCalled =>
              \A radio \in DOMAIN result.value.details :
                  RMul(result.value.details[radio].average_mw, hours) =
                      result.value.details[radio].total_mwh
        /\ (CoprocessorCalled /\ coprocessor_config.enabled) =>
              RMul(result.value.details.average_mw, hours) = result.value.total

\* All three calculators have returned results for enabled components over a
\* horizon that is not a day.
C15_Witness ==
    /\ RGt(hours, Zero) /\ hours # N(24)
    /\ \E c \in calls :
          /\ c[1] = "calculate_sensor_consumption" /\ Returned(c[2])
          /\ DOMAIN c[2].value.details # {}
    /\ \E c \in calls :
          /\ c[1] = "calculate_comms_consumption" /\ Returned(c[2])
    /\ CoprocessorReturned /\ coprocessor_config.enabled
    /\ RMul(result.value.details.average_mw, hours) = result.value.total
    /\ result.value.total # Zero

SensorIds == {"LSM6DSV", "MMC5983MA", "TSL2591", "BME280"}

Radios == {"gps", "cellular", "lora"}

DisabledRadios(radio) ==
    IF radio = "gps" THEN DisabledGps
    ELSE IF radio = "cellular" THEN DisabledCellular ELSE DisabledLora

NoSensorEnabled == \A id \in SensorIds : ~sensors_config[id].enabled

NoRadioEnabled == \A radio \in Radios : ~comms_config[radio].enabled

\* C19: a calculator's outcome does not depend on the other fields of a
\* disabled component: replacing a disabled sensor, radio or co-processor
\* config by any other disabled one (bare, or with other fields) gives the
\* same outcome; a disabled component has no entry in the details, and a
\* config with every component disabled returns zero energy without error.
C19_DisabledFieldsUnread ==
    /\ SensorCalled =>
          /\ \A id \in SensorIds : ~sensors_config[id].enabled =>
                /\ \A v \in DisabledSensors :
                      calculate_sensor_consumption([sensors_config EXCEPT ![id] = v], hours)
                          = result
                /\ Returned(result) => id \notin DOMAIN result.value.details
          /\ NoSensorEnabled =>
                result = Return([continuous |-> Zero, polled |-> Zero, total |-> Zero,
                                 details |-> <<>>])
    /\ CommsCalled =>
          /\ \A radio \in Radios : ~comms_config[radio].enabled =>
                /\ \A v \in DisabledRadios(radio) :
                      calculate_comms_consumption([comms_config EXCEPT ![radio] = v], hours)
                          = result
                /\ Returned(result) => radio \notin DOMAIN result.value.details
          /\ NoRadioEnabled => result = Return([total |-> Zero, details |-> <<>>])
    /\ (CoprocessorCalled /\ ~coprocessor_config.enabled) =>
          /\ \A v \in DisabledCoprocessors :
                calculate_coprocessor_consumption(v, hours) = result
          /\ result = Return([total |-> Zero, details |-> <<>>])

\* A disabled GPS config that carries other fields, beside an enabled radio
\* whose energy is the whole result.
C19_Witness ==
    /\ CommsCalled /\ Returned(result)
    /\ ~comms_config.gps.enabled /\ comms_config.gps # Disabled
    /\ comms_config.cellular.enabled
    /\ DOMAIN result.value.details = {"cellular"}
    /\ result.value.total = result.value.details.cellular.total_mwh
    /\ result.value.total # Zero

TimelineReturned == called = "calculate_power_timeline" /\ Returned(timeline)

AllDisabled == NoSensorEnabled /\ NoRadioEnabled /\ ~coprocessor_config.enabled

\* C16: whenever calculate_power_timeline returns, the timeline has exactly
\* hours * 3600 samples (86400 for 24 hours), and when every category is
\* disabled every sample is 0.
C16_TimelineLength ==
    TimelineReturned =>
        /\ N(timeline.value.length) = RMul(hours, N(3600))
        /\ hours = N(24) => timeline.value.length = 86400
        /\ AllDisabled =>
              \A i \in 0 .. timeline.value.length - 1 : Sample(timeline.value, i) = Zero

\* A day's timeline of a device with everything disabled.
C16_Witness ==
    /\ TimelineReturned /\ AllDisabled
    /\ hours = N(24)
    /\ timeline.value.length = 86400
    /\ Sample(timeline.value, 86399) = Zero

\* No pass of any loop was skipped at the end of the horizon, and no slice
\* was cut by it.
NoBoundaryOverlap ==
    \A j \in 1 .. Len(timeline.value.adds) :
        /\ timeline.value.adds[j].count = timeline.value.adds[j].iterations
        /\ Regular(timeline.value.adds[j], timeline.value.length)

\* C17: when no scheduled window overlaps the horizon boundary, the timeline
\* built from the aggregate integrates to the aggregate's raw energy:
\* sum(timeline) / 3600 = raw_total_mwh.
C17_TimelineIntegratesToRawTotal ==
    (TimelineReturned /\ NoBoundaryOverlap) =>
        RDiv(SumTimeline(timeline.value), N(3600)) = result.value.raw_total_mwh

\* The additions a category made to the timeline.
AddsOf(parts) ==
    {timeline.value.adds[j] : j \in {i \in 1 .. Len(timeline.value.adds) :
                                        timeline.value.adds[i].part \in parts}}

WindowCount(parts) ==
    LET RECURSIVE Count(_)
        Count(n) == IF n = 0 THEN 0
                    ELSE Count(n - 1) + IF timeline.value.adds[n].part \in parts
                                        THEN timeline.value.adds[n].count ELSE 0
    IN  Count(Len(timeline.value.adds))

\* C18: the timeline places each enabled category's windows as its calculator
\* counted them: as many windows as the calculator's activations (polled
\* samples, GPS updates, cellular sessions, LoRa messages, co-processor
\* windows), each as long as the configured duration, and the LoRa receive
\* power at the configured rx_duty_cycle.
C18_TimelineUsesConfiguredSchedule ==
    TimelineReturned =>
        LET radio == result.value.communications.details
        IN  /\ \A id \in PolledIds : sensors_config[id].enabled =>
                  \A add \in AddsOf({id}) :
                      /\ N(add.count) = RMul(sensors_config.base_frequency_per_hour, hours)
                      /\ N(add.length) = sensors_config.base_duration_seconds
            /\ comms_config.gps.enabled =>
                  /\ N(WindowCount({"gps_acquisition", "gps_tracking"})) = radio.gps.updates
                  /\ \A add \in AddsOf({"gps_tracking"}) :
                         N(add.length) = comms_config.gps.duration_seconds
            /\ comms_config.cellular.enabled =>
                  /\ N(WindowCount({"cellular_startup"})) = radio.cellular.sessions
                  /\ \A add \in AddsOf({"cellular_active"}) :
                         N(add.offset + add.length) =
                             RMul(comms_config.cellular.duration_minutes, N(60))
            /\ comms_config.lora.enabled =>
                  /\ N(WindowCount({"lora_tx"})) = radio.lora.messages
                  /\ \A add \in AddsOf({"lora_tx"}) :
                         N(add.length) = comms_config.lora.duration_seconds
                  /\ \A add \in AddsOf({"lora_rx"}) :
                         add.power = RMul(COMMS_CONFIGS.LORA.power_modes.rx.power,
                                          comms_config.lora.rx_duty_cycle)
            /\ coprocessor_config.enabled =>
                  /\ N(WindowCount({"coprocessor"})) = result.value.coprocessor.details.windows
                  /\ \A add \in AddsOf({"coprocessor"}) :
                         N(add.length) = RMul(coprocessor_config.duration_minutes, N(60))

Calculators ==
    {"calculate_sensor_consumption", "calculate_comms_consumption",
     "calculate_coprocessor_consumption", "calculate_total_consumption",
     "calculate_battery_life", "calculate_power_timeline"}

TimelineCalled == called = "calculate_power_timeline"

\* C22: over a 24-hour horizon calculate_power_timeline returns a timeline
\* for every aggregate calculate_total_consumption returned (it does not end
\* in an exception), and no loop of it makes more passes than the horizon has
\* seconds.
C22_TimelineReturns ==
    (TimelineCalled /\ hours = N(24)) =>
        /\ Returned(timeline)
        /\ \A j \in 1 .. Len(timeline.value.adds) :
               timeline.value.adds[j].iterations <= 86400

\* The passes of a loop over range(0, seconds, step), numbered from 0, whose
\* window of the given duration ends strictly before the horizon.
WholePasses(passes, step, duration, seconds) ==
    {k \in passes : k * step + duration < seconds}

\* C24: the GPS loop's pass at t = 0 adds the acquisition power 25 to samples
\* 0..29; every later pass adds the tracking power 20 to its 5 samples exactly
\* when t + 5 < seconds; every cellular pass with t + 600 < seconds adds the
\* startup power 600 to sample t and the active power 500 to samples
\* t+1..t+599, and the other passes add nothing; no slice is cut by the end
\* of the array.
C24_WholeWindows ==
    TimelineReturned =>
        LET seconds == timeline.value.length
        IN  \A j \in 1 .. Len(timeline.value.adds) :
                LET add == timeline.value.adds[j]
                IN  /\ add.part = "gps_acquisition" =>
                          /\ add.count = add.iterations
                          /\ add.first = 0 /\ add.offset = 0 /\ add.length = 30
                          /\ add.power = N(25)
                          /\ Regular(add, seconds)
                    /\ add.part = "gps_tracking" =>
                          /\ add.count =
                                 Cardinality(WholePasses(1 .. add.iterations, add.step, 5, seconds))
                          /\ add.first = add.step /\ add.offset = 0 /\ add.length = 5
                          /\ add.power = N(20)
                          /\ Regular(add, seconds)
                    /\ add.part \in {"cellular_startup", "cellular_active"} =>
                          /\ add.count =
                                 Cardinality(WholePasses(0 .. add.iterations - 1, add.step, 600,
                                                         seconds))
                          /\ add.first = 0
                          /\ Regular(add, seconds)
                    /\ add.part = "cellular_startup" =>
                          add.offset = 0 /\ add.length = 1 /\ add.power = N(600)
                    /\ add.part = "cellular_active" =>
                          add.offset = 1 /\ add.length = 599 /\ add.power = N(500)

\* A day with 7 cellular sessions: the pass at t = 86394 is skipped, the seven
\* before it are written whole (startup sample, then 599 active samples).
C24_Witness ==
    /\ TimelineReturned
    /\ hours = N(24)
    /\ comms_config.cellular.enabled
    /\ result.value.communications.details.cellular.sessions = N(7)
    /\ \E j \in 1 .. Len(timeline.value.adds) :
          /\ timeline.value.adds[j].part = "cellular_startup"
          /\ timeline.value.adds[j].iterations = 8
          /\ timeline.value.adds[j].count = 7
    /\ Sample(timeline.value, 6 * 12342) = N(600)
    /\ Sample(timeline.value, 6 * 12342 + 599) = N(500)
    /\ Sample(timeline.value, 6 * 12342 + 600) = Zero
    /\ Sample(timeline.value, 86394) = Zero

\* The samples at which the timeline's value can change: sample 0 and the
\* ends of every slice written.  Between two of them it is constant.
BreakPoints(tl) ==
    {0} \cup
    UNION {UNION {{p \in {SliceStart(tl.adds[j], k, tl.length),
                          SliceStop(tl.adds[j], k, tl.length)} : p < tl.length} :
                  k \in 0 .. tl.adds[j].count - 1} :
           j \in 1 .. Len(tl.adds)}

\* Some category's energy in the aggregate is negative.
NegativeEnergy ==
    \/ RLt(result.value.sensors.total, Zero)
    \/ RLt(result.value.communications.total, Zero)
    \/ RLt(result.value.coprocessor.total, Zero)
    \/ /\ Has(result.value.coprocessor.details, "active_mwh")
       /\ RLt(result.value.coprocessor.details.active_mwh, Zero)

\* C25: for hours > 0, every sample of a returned timeline is >= 0, also when
\* the aggregate holds negative energies.  (The timeline is constant between
\* break points, so its values are the values there.)
C25_SamplesNonNegative ==
    (TimelineReturned /\ RGt(hours, Zero)) =>
        \A i \in BreakPoints(timeline.value) : RLe(Zero, Sample(timeline.value, i))

\* A day's timeline of a co-processor configured with a negative duration:
\* its active energy is negative, its total positive, and its slices
\* timeline[t : t + duration] count from the end of the array.
C25_Witness ==
    /\ TimelineReturned /\ hours = N(24)
    /\ coprocessor_config.enabled
    /\ NegativeEnergy
    /\ RLt(result.value.coprocessor.details.active_mwh, Zero)
    /\ \E j \in 1 .. Len(timeline.value.adds) :
          /\ timeline.value.adds[j].part = "coprocessor"
          /\ timeline.value.adds[j].length < 0
          /\ timeline.value.adds[j].count > 0
    /\ RGt(Sample(timeline.value, 0), Zero)

\* The sum of total_mwh over the entries of details whose keys are among the
\* first n of keys.
RECURSIVE DetailsEnergy(_, _, _)
DetailsEnergy(details, keys, n) ==
    IF n = 0 THEN Zero
    ELSE RAdd(DetailsEnergy(details, keys, n - 1),
              IF Has(details, keys[n]) THEN details[keys[n]].total_mwh ELSE Zero)

RadioOrder == <<"gps", "cellular", "lora">>

\* C26: a result of calculate_sensor_consumption has total = continuous +
\* polled = the sum of its details' total_mwh, and details for exactly the
\* enabled sensors; a result of calculate_comms_consumption has total = the
\* sum of its details' total_mwh, and details for exactly the enabled radios.
C26_TotalsAreSums ==
    /\ (SensorCalled /\ Returned(result)) =>
          /\ result.value.total = RAdd(result.value.continuous, result.value.polled)
          /\ result.value.total = DetailsEnergy(result.value.details, SensorOrder, 4)
          /\ DOMAIN result.value.details = {id \in SensorIds : sensors_config[id].enabled}
    /\ (CommsCalled /\ Returned(result)) =>
          /\ result.value.total = DetailsEnergy(result.value.details, RadioOrder, 3)
          /\ DOMAIN result.value.details = {radio \in Radios : comms_config[radio].enabled}

\* A continuous and a polled sensor enabled beside a disabled one: two
\* entries of details, both categories non-zero.
C26_Witness ==
    /\ SensorCalled /\ Returned(result)
    /\ DOMAIN result.value.details = {"LSM6DSV", "MMC5983MA"}
    /\ ~sensors_config.BME280.enabled
    /\ result.value.continuous # Zero
    /\ result.value.polled # Zero
    /\ result.value.total = RAdd(result.value.details.LSM6DSV.total_mwh,
                                 result.value.details.MMC5983MA.total_mwh)

\* The last run was a calculation.
Calculated == page.button = "Calculate Battery Life"

\* display_results called calculate_power_timeline, which raised.
TimelineFailed == Calculated /\ page.timeline.raised \notin {"none", "not called"}

Rendered(element) == \E i \in 1 .. Len(page.rendered) : page.rendered[i] = element

\* C21: when calculate_power_timeline raises during a calculation, the
\* exception does not leave display_results, and the scalar results (average
\* power, derated daily energy, efficiency) are on the page.
C21_TimelineFailureDegraded ==
    TimelineFailed =>
        /\ page.raised = "none"
        /\ Rendered("metrics")
        /\ page.metrics = DisplayMetrics(page.calculation.value)

\* The entry k of a session state, as a sequence of none or one value.
Entry(state, k) == IF Has(state, k) THEN <<state[k]>> ELSE <<>>

Written(k) == Entry(session_state', k) # Entry(session_state, k)

====
